---- MODULE Spec2Model ----
(***************************************************************************)
(* Model of packages/hydrooj/src/model/contest.ts: the contest rules' stat *)
(* folds (acm, oi, ioi, strictioi, ledo, homework), the ranking primitive  *)
(* they use, and the operations that store a participant's journal and     *)
(* aggregates (updateStatus, recalcStatus, unlockScoreboard).              *)
(*                                                                         *)
(* Instants are whole seconds.  A submission id (rid) is modelled by the   *)
(* creation instant embedded in it, one submission per instant and         *)
(* participant.  A JavaScript object is a record; a field that is absent   *)
(* on a journal entry is the value Undef (npending: 0, which the code      *)
(* never stores).                                                          *)
(***************************************************************************)
EXTENDS Integers, Sequences, FiniteSets, TLC

\* ------------------------------------------------------------------ bounds
MaxJournal == 3
MaxTime == 3
MaxLedoJournal == 10
MaxStandings == 4
MaxKey == 1
MaxContests == 2
MaxBoardJournal == 2
MaxHours == 2
MaxCalls == 3

\* ------------------------------------------------------- program constants
STATUS_ACCEPTED == 1
STATUS_WRONG_ANSWER == 2
STATUS_COMPILE_ERROR == 7
STATUS_FORMAT_ERROR == 31
PenaltySeconds == 1200
Hour == 3600
Day == 86400

Undef == -1
NegInfinity == -2
None == -1

RuleNames == {"acm", "oi", "ioi", "strictioi", "ledo", "homework"}

\* ------------------------------------------------------------ generic maps
Put(f, k, v) == [x \in (DOMAIN f) \cup {k} |-> IF x = k THEN v ELSE f[x]]

EmptyMap == [x \in {} |-> 0]

Get(f, k, d) == IF k \in DOMAIN f THEN f[k] ELSE d

RECURSIVE SumOver(_, _)
SumOver(f, S) ==
    IF S = {} THEN 0
    ELSE LET k == CHOOSE x \in S : TRUE IN f[k] + SumOver(f, S \ {k})

Max2(a, b) == IF a >= b THEN a ELSE b

\* --------------------------------------------------------- the contest doc
Pids == <<1, 2>>
ForeignPid == 3
AllPids == {1, 2, 3}
BeginAt == 0
EndAt == 2
LockTime == 1
PenaltySince == 2

PidsIncludes(tdoc, pid) == \E i \in 1..Len(tdoc.pids) : tdoc.pids[i] = pid

getTimestamp(rid) == rid

\* a manual unlock not honoured
isLocked_IgnoreUnlocked(tdoc, now) == tdoc.lockAt # None /\ tdoc.lockAt < now

\* lines 781-785
isLocked(tdoc, now) ==
    IF tdoc.lockAt = None THEN FALSE
    ELSE tdoc.lockAt < now /\ ~tdoc.unlocked

\* lockAt as the stat folds compute it: tdoc.lockAt when locked, else null
StatLockAt(tdoc, now) == IF isLocked(tdoc, now) THEN tdoc.lockAt ELSE None

\* the freeze test dropped
AfterLock_Never(lockAt, j) == FALSE

\* lines 77 and 237: the entry was submitted after the freeze instant
AfterLock(lockAt, j) == lockAt # None /\ getTimestamp(j.rid) > lockAt

\* ------------------------------------------------------------ journal entry
\* subtasks: a map from subtask index to [score, status]
Sub(s, st) == [score |-> s, status |-> st]

NewEntry(rid, pid, v) ==
    [rid |-> rid, pid |-> pid, status |-> v.status, score |-> v.score,
     subtasks |-> v.subtasks, npending |-> 0, penaltyScore |-> Undef,
     time |-> Undef]

\* the judge results a submission is drawn from
Verdicts ==
    { [status |-> STATUS_ACCEPTED, score |-> 100,
       subtasks |-> (0 :> Sub(50, STATUS_ACCEPTED) @@ 1 :> Sub(50, STATUS_ACCEPTED))],
      [status |-> STATUS_WRONG_ANSWER, score |-> 50,
       subtasks |-> (0 :> Sub(50, STATUS_ACCEPTED) @@ 1 :> Sub(0, STATUS_WRONG_ANSWER))],
      [status |-> STATUS_WRONG_ANSWER, score |-> 30,
       subtasks |-> (0 :> Sub(0, STATUS_WRONG_ANSWER) @@ 1 :> Sub(30, STATUS_WRONG_ANSWER))],
      [status |-> STATUS_COMPILE_ERROR, score |-> 0, subtasks |-> EmptyMap] }

\* _getStatusJournal: Array.prototype.sort by rid timestamp, which is stable
RECURSIVE InsertSorted(_, _)
InsertSorted(s, e) ==
    IF s = <<>> THEN <<e>>
    ELSE IF getTimestamp(s[Len(s)].rid) <= getTimestamp(e.rid) THEN Append(s, e)
    ELSE Append(InsertSorted(SubSeq(s, 1, Len(s) - 1), e), s[Len(s)])

RECURSIVE getStatusJournal(_)
getStatusJournal(journal) ==
    IF journal = <<>> THEN <<>>
    ELSE InsertSorted(getStatusJournal(SubSeq(journal, 1, Len(journal) - 1)),
                      journal[Len(journal)])

\* {...a, ...b}: the fields of a, overwritten and extended by those of b
Spread(a, b) ==
    [k \in (DOMAIN a) \cup (DOMAIN b) |-> IF k \in DOMAIN b THEN b[k] ELSE a[k]]

HasStatus(doc, st) == "status" \in DOMAIN doc /\ doc.status = st

\* -------------------------------------------------------- rule composition
\* a function value: the definition whose code it is (impl) and the rule it
\* is bound to (this); a rule object is named by its key in RULES
Unbound == "unbound"

Fn(impl) == [impl |-> impl, this |-> Unbound]

\* Function.prototype.bind: binding a bound function does not rebind it
Bind(fn, rule) == IF fn.this = Unbound THEN [fn EXCEPT !.this = rule] ELSE fn

Funcs == {"scoreboard", "scoreboardRow", "scoreboardHeader", "stat"}

\* the base rule's functions as the base holds them, already bound to it
OriginalRule_Bound(baseRule) == [key \in Funcs \cap DOMAIN baseRule |-> baseRule[key]]

\* line 37: baseRule._originalRule || {}
OriginalRule(baseRule) ==
    IF "originalRule" \in DOMAIN baseRule THEN baseRule.originalRule ELSE EmptyMap

\* lines 34-47
buildContestRule(def, baseRule) ==
    LET base == OriginalRule(baseRule)
        f == [key \in Funcs |-> IF key \in DOMAIN def THEN def[key] ELSE base[key]]
        rule == Spread(baseRule, def)
        bound == [key \in Funcs |-> Bind(f[key], def.name)]
    IN Spread(Spread(rule, bound), [originalRule |-> f])

\* the rule definitions: the fields each one supplies
acm ==
    buildContestRule(
        [name |-> "acm", check |-> "acm", submitAfterAccept |-> FALSE,
         showScoreboard |-> "acm", showSelfRecord |-> "acm", showRecord |-> "acm",
         stat |-> Fn("acm"), scoreboardHeader |-> Fn("acm"),
         scoreboardRow |-> Fn("acm"), scoreboard |-> Fn("acm"), ranked |-> "acm"],
        EmptyMap)

oi ==
    buildContestRule(
        [name |-> "oi", check |-> "oi", submitAfterAccept |-> TRUE,
         showScoreboard |-> "oi", showSelfRecord |-> "oi", showRecord |-> "oi",
         stat |-> Fn("oi"), scoreboardHeader |-> Fn("oi"),
         scoreboardRow |-> Fn("oi"), scoreboard |-> Fn("oi"), ranked |-> "oi"],
        EmptyMap)

ioi ==
    buildContestRule(
        [name |-> "ioi", submitAfterAccept |-> FALSE,
         showScoreboard |-> "ioi", showSelfRecord |-> "ioi", showRecord |-> "ioi"],
        oi)

strictioi ==
    buildContestRule(
        [name |-> "strictioi", submitAfterAccept |-> FALSE,
         showScoreboard |-> "strictioi", showSelfRecord |-> "strictioi",
         showRecord |-> "strictioi",
         stat |-> Fn("strictioi"), scoreboardRow |-> Fn("strictioi")],
        ioi)

ledo ==
    buildContestRule(
        [name |-> "ledo", check |-> "ledo", submitAfterAccept |-> FALSE,
         showScoreboard |-> "ledo", showSelfRecord |-> "ledo", showRecord |-> "ledo",
         stat |-> Fn("ledo"), scoreboardRow |-> Fn("ledo")],
        oi)

homework ==
    buildContestRule(
        [name |-> "homework", check |-> "homework", submitAfterAccept |-> FALSE,
         showScoreboard |-> "homework", showSelfRecord |-> "homework",
         showRecord |-> "homework",
         stat |-> Fn("homework"), scoreboardHeader |-> Fn("homework"),
         scoreboardRow |-> Fn("homework"), scoreboard |-> Fn("homework"),
         ranked |-> "homework"],
        EmptyMap)

RULES == [acm |-> acm, oi |-> oi, homework |-> homework, ioi |-> ioi,
          ledo |-> ledo, strictioi |-> strictioi]

\* ------------------------------------------------------------------- rules
\* every rule taking the latest submission
submitAfterAccept_Always(rule) == TRUE

\* this.submitAfterAccept, this being the rule object
submitAfterAccept(rule) == RULES[rule].submitAfterAccept

\* ---------------------------------------------------------------- acm.stat
\* line 68: the entry is skipped when the problem's display entry is accepted
AcmSkip(rule, display, j) ==
    /\ ~submitAfterAccept(rule)
    /\ j.pid \in DOMAIN display
    /\ HasStatus(display[j.pid], STATUS_ACCEPTED)

\* a compile error counted as a rejected attempt
AcmNotCounted_OnlyAccepted(status) == status = STATUS_ACCEPTED

\* line 74: the statuses that do not count as a rejected attempt
AcmNotCounted(status) ==
    status \in {STATUS_ACCEPTED, STATUS_COMPILE_ERROR, STATUS_FORMAT_ERROR}

AcmDetail(tdoc, j, n) ==
    LET real == (getTimestamp(j.rid) - tdoc.beginAt)
        penalty == PenaltySeconds * n
    IN Spread(j, [naccept |-> n, time |-> real + penalty, real |-> real,
                  penalty |-> penalty])

AcmInit == [naccept |-> EmptyMap, npending |-> EmptyMap,
            detail |-> EmptyMap, display |-> EmptyMap]

\* one iteration of the loop of lines 67-86
AcmStep(rule, tdoc, lockAt, st, j) ==
    IF AcmSkip(rule, st.display, j) THEN st
    ELSE
      LET n == Get(st.naccept, j.pid, 0)
          d == AcmDetail(tdoc, j, n)
          naccept2 == IF AcmNotCounted(j.status) THEN st.naccept
                      ELSE Put(st.naccept, j.pid, n + 1)
          detail2 == Put(st.detail, j.pid, d)
      IN IF AfterLock(lockAt, j)
         THEN LET np == Get(st.npending, j.pid, 0) + 1
                  old == Get(st.display, j.pid, EmptyMap)
              IN [naccept |-> naccept2,
                  npending |-> Put(st.npending, j.pid, np),
                  detail |-> detail2,
                  display |-> Put(st.display, j.pid, Spread(old, [npending |-> np]))]
         ELSE [naccept |-> naccept2, npending |-> st.npending,
               detail |-> detail2, display |-> Put(st.display, j.pid, d)]

RECURSIVE AcmFold(_, _, _, _, _)
AcmFold(rule, tdoc, lockAt, journal, k) ==
    IF k = 0 THEN AcmInit
    ELSE AcmStep(rule, tdoc, lockAt, AcmFold(rule, tdoc, lockAt, journal, k - 1),
                 journal[k])

AcmAccepted(display) == {p \in DOMAIN display : HasStatus(display[p], STATUS_ACCEPTED)}

\* lines 58-94; the journal is returned as the fold leaves it (acm leaves it alone)
AcmStat(rule, tdoc, now, journal) ==
    LET st == AcmFold(rule, tdoc, StatLockAt(tdoc, now), journal, Len(journal))
        acc == AcmAccepted(st.display)
    IN [journal |-> journal,
        stats |-> [accept |-> Cardinality(acc),
                   time |-> SumOver([p \in acc |-> st.display[p].time], acc),
                   detail |-> st.detail, display |-> st.display]]


\* ----------------------------------------------------------------- oi.stat
\* detail[pid] and display[pid] hold references to journal entries: the fold
\* keeps the entry's index (ref), or ref = 0 and the fresh object {} (obj).
OiInit(journal) == [journal |-> journal, npending |-> EmptyMap,
                    detail |-> EmptyMap, display |-> EmptyMap]

Fresh(obj) == [ref |-> 0, obj |-> obj]
Ref(k) == [ref |-> k, obj |-> EmptyMap]

\* line 234: whether entry j replaces the problem's detail entry
OiReplaces(rule, journal, detail, j) ==
    \/ j.pid \notin DOMAIN detail
    \/ journal[detail[j.pid]].score < j.score
    \/ submitAfterAccept(rule)

\* display[pid].npending = np, on whatever object display[pid] is
OiSetPending(st, pid, np) ==
    LET cur == Get(st.display, pid, Fresh(EmptyMap))
    IN IF cur.ref = 0
       THEN [st EXCEPT !.npending = Put(st.npending, pid, np),
                       !.display = Put(st.display, pid,
                                       Fresh(Spread(cur.obj, [npending |-> np])))]
       ELSE [st EXCEPT !.npending = Put(st.npending, pid, np),
                       !.display = Put(st.display, pid, cur),
                       !.journal[cur.ref].npending = np]

\* one iteration of the loop of lines 233-244, on the k-th journal entry
OiStep(rule, tdoc, lockAt, st, k) ==
    LET j == st.journal[k] IN
    IF ~PidsIncludes(tdoc, j.pid) THEN st
    ELSE IF ~OiReplaces(rule, st.journal, st.detail, j) THEN st
    ELSE LET st2 == [st EXCEPT !.detail = Put(st.detail, j.pid, k)]
         IN IF AfterLock(lockAt, j)
            THEN OiSetPending(st2, j.pid, Get(st.npending, j.pid, 0) + 1)
            ELSE [st2 EXCEPT !.display = Put(st.display, j.pid, Ref(k))]

RECURSIVE OiFold(_, _, _, _, _)
OiFold(rule, tdoc, lockAt, journal, k) ==
    IF k = 0 THEN OiInit(journal)
    ELSE OiStep(rule, tdoc, lockAt, OiFold(rule, tdoc, lockAt, journal, k - 1), k)

Deref(journal, d) == IF d.ref = 0 THEN d.obj ELSE journal[d.ref]

\* display[i].score || 0
ScoreOrZero(doc) == IF "score" \in DOMAIN doc THEN doc.score ELSE 0

\* lines 226-247
OiStat(rule, tdoc, now, journal) ==
    LET st == OiFold(rule, tdoc, StatLockAt(tdoc, now), journal, Len(journal))
        detail == [p \in DOMAIN st.detail |-> st.journal[st.detail[p]]]
        display == [p \in DOMAIN st.display |-> Deref(st.journal, st.display[p])]
    IN [journal |-> st.journal,
        stats |-> [score |-> SumOver([p \in DOMAIN display |-> ScoreOrZero(display[p])],
                                     DOMAIN display),
                   detail |-> detail, display |-> display]]

\* ---------------------------------------------------------- strictioi.stat
\* sumBy(Object.values(subtasks), 'score')
SubtaskScoreSum(subtasks) ==
    SumOver([i \in DOMAIN subtasks |-> subtasks[i].score], DOMAIN subtasks)

\* Math.max(...Object.values(subtasks).map((i) => i.status)); -Infinity of none
RECURSIVE MaxOfSet(_)
MaxOfSet(S) ==
    IF S = {} THEN NegInfinity
    ELSE LET x == CHOOSE y \in S : TRUE IN Max2(x, MaxOfSet(S \ {x}))

SubtaskStatusMax(subtasks) == MaxOfSet({subtasks[i].status : i \in DOMAIN subtasks})

\* line 392: whether the entry's result for subtask i replaces the best one
SubtaskImproves(subtasks, mine, i) ==
    i \notin DOMAIN subtasks \/ subtasks[i].score < mine[i].score

\* lines 391-393: the rule-wide best result per subtask index
MergeSubtasks(subtasks, mine) ==
    [i \in (DOMAIN subtasks) \cup (DOMAIN mine) |->
        IF i \in DOMAIN mine /\ SubtaskImproves(subtasks, mine, i)
        THEN mine[i] ELSE subtasks[i]]

\* an equal score replacing the detail entry
StrictReplaces_OrEqual(journal, detail, j) ==
    j.pid \notin DOMAIN detail \/ journal[detail[j.pid]].score <= j.score

\* line 397: whether entry j (already rescored) replaces the detail entry
StrictReplaces(journal, detail, j) ==
    j.pid \notin DOMAIN detail \/ journal[detail[j.pid]].score < j.score

StrictInit(journal) == [journal |-> journal, subtasks |-> EmptyMap,
                        detail |-> EmptyMap, seen |-> {}]

\* one iteration of the loop of lines 390-398, on the k-th journal entry:
\* the entry's score and status are overwritten (lines 394-395) and its
\* subtasks become the shared object (line 396)
StrictStep(tdoc, st, k) ==
    LET j0 == st.journal[k] IN
    IF ~PidsIncludes(tdoc, j0.pid) THEN st
    ELSE LET subtasks == MergeSubtasks(st.subtasks, j0.subtasks)
             j == [j0 EXCEPT !.score = SubtaskScoreSum(subtasks),
                             !.status = SubtaskStatusMax(subtasks)]
         IN [journal |-> [st.journal EXCEPT ![k] = j],
             subtasks |-> subtasks,
             detail |-> IF StrictReplaces(st.journal, st.detail, j)
                        THEN Put(st.detail, j.pid, k) ELSE st.detail,
             seen |-> st.seen \cup {k}]

RECURSIVE StrictFold(_, _, _)
StrictFold(tdoc, journal, k) ==
    IF k = 0 THEN StrictInit(journal)
    ELSE StrictStep(tdoc, StrictFold(tdoc, journal, k - 1), k)

\* lines 386-401; every folded entry ends up holding the one subtasks object
StrictStat(tdoc, journal) ==
    LET st == StrictFold(tdoc, journal, Len(journal))
        out == [k \in 1..Len(journal) |->
                   IF k \in st.seen
                   THEN [st.journal[k] EXCEPT !.subtasks = st.subtasks]
                   ELSE st.journal[k]]
        detail == [p \in DOMAIN st.detail |-> out[st.detail[p]]]
    IN [journal |-> out,
        stats |-> [score |-> SumOver([p \in DOMAIN detail |-> detail[p].score],
                                     DOMAIN detail),
                   detail |-> detail]]

\* --------------------------------------------------------------- ledo.stat
RECURSIVE Pow(_, _)
Pow(b, k) == IF k = 0 THEN 1 ELSE b * Pow(b, k - 1)

\* Math.max(0.7, 0.95 ** k) is 0.7: 0.95 ** k < 0.7, i.e. 19^k < 14 * 20^(k-1);
\* the power decreases with k, so a smaller k already below 0.7 decides
RECURSIVE FloorApplies(_)
FloorApplies(k) ==
    k >= 1 /\ (FloorApplies(k - 1) \/ Pow(19, k) < 14 * Pow(20, k - 1))

\* score * 0.95 ** k, exactly, as int + frac / den with den = 20^k
RECURSIVE Decay(_, _)
Decay(score, k) ==
    IF k = 0 THEN [int |-> score, frac |-> 0, den |-> 1]
    ELSE LET p == Decay(score, k - 1)
             n == ((19 * p.int) % 20) * p.den + 19 * p.frac
             d == 20 * p.den
         IN [int |-> ((19 * p.int) \div 20) + (n \div d), frac |-> n % d, den |-> d]

\* Math.round of a non-negative int + frac / den: halves round up
RoundHalfUp(x) == IF 2 * x.frac >= x.den THEN x.int + 1 ELSE x.int

\* line 448: Math.round(Math.max(0.7, 0.95 ** k) * score)
LedoPenalized(score, k) ==
    IF FloorApplies(k) THEN RoundHalfUp([int |-> (7 * score) \div 10,
                                         frac |-> (7 * score) % 10, den |-> 10])
    ELSE RoundHalfUp(Decay(score, k))

\* compile errors counted as attempts
LedoValid_All(status) == TRUE

\* line 446
LedoValid(status) == status \notin {STATUS_COMPILE_ERROR, STATUS_FORMAT_ERROR}

\* line 449: whether the entry replaces the problem's detail entry
LedoReplaces(detail, pid, penaltyScore) ==
    pid \notin DOMAIN detail \/ detail[pid].penaltyScore < penaltyScore

LedoInit == [ntry |-> EmptyMap, detail |-> EmptyMap]

\* one iteration of the loop of lines 445-456
LedoStep(tdoc, st, j) ==
    IF ~PidsIncludes(tdoc, j.pid) THEN st
    ELSE LET vaild == LedoValid(j.status)
             n == Get(st.ntry, j.pid, 0) + (IF vaild THEN 1 ELSE 0)
             penaltyScore == IF vaild THEN LedoPenalized(j.score, n - 1) ELSE 0
         IN [ntry |-> Put(st.ntry, j.pid, n),
             detail |-> IF LedoReplaces(st.detail, j.pid, penaltyScore)
                        THEN Put(st.detail, j.pid,
                                 Spread(j, [penaltyScore |-> penaltyScore,
                                            ntry |-> n - 1]))
                        ELSE st.detail]

RECURSIVE LedoFold(_, _, _)
LedoFold(tdoc, journal, k) ==
    IF k = 0 THEN LedoInit
    ELSE LedoStep(tdoc, LedoFold(tdoc, journal, k - 1), journal[k])

PidsWithDetail(tdoc, detail) ==
    {tdoc.pids[i] : i \in 1..Len(tdoc.pids)} \cap DOMAIN detail

\* lines 442-467
LedoStat(tdoc, journal) ==
    LET st == LedoFold(tdoc, journal, Len(journal))
        ps == PidsWithDetail(tdoc, st.detail)
    IN [journal |-> journal,
        stats |-> [score |-> SumOver([p \in ps |-> st.detail[p].penaltyScore], ps),
                   originalScore |-> SumOver([p \in ps |-> st.detail[p].score], ps),
                   detail |-> st.detail]]

\* ----------------------------------------------------------- homework.stat
\* lines 521-533; a coefficient is held in percent
HomeworkCoefficient(tdoc, exceedSeconds) ==
    LET keys == {i \in DOMAIN tdoc.penaltyRules : i * Hour <= exceedSeconds}
    IN IF keys = {} THEN 100
       ELSE tdoc.penaltyRules[CHOOSE i \in keys : \A m \in keys : m <= i]

HomeworkPenaltyScore(tdoc, jdoc) ==
    LET exceedSeconds == getTimestamp(jdoc.rid) - tdoc.penaltySince
    IN IF exceedSeconds < 0 THEN jdoc.score
       ELSE (jdoc.score * HomeworkCoefficient(tdoc, exceedSeconds)) \div 100

\* lines 516-519
HomeworkTime(tdoc, jdoc) == getTimestamp(jdoc.rid) - tdoc.beginAt

\* lines 513-515: the index of the last entry of each problem of pids
HomeworkEffective(tdoc, journal) ==
    LET ps == {journal[k].pid : k \in {i \in 1..Len(journal) :
                                        PidsIncludes(tdoc, journal[i].pid)}}
    IN [p \in ps |-> CHOOSE k \in 1..Len(journal) :
                        /\ journal[k].pid = p
                        /\ \A m \in 1..Len(journal) : journal[m].pid = p => m <= k]

\* Math.sum of @hydrooj/utils over an array of numbers
MathSum(f, S) == SumOver(f, S)

\* lines 511-546; lines 536-537 write penaltyScore and time on the entries
HomeworkStat(tdoc, journal) ==
    LET eff == HomeworkEffective(tdoc, journal)
        hit == {eff[p] : p \in DOMAIN eff}
        out == [k \in 1..Len(journal) |->
                   IF k \in hit
                   THEN [journal[k] EXCEPT
                           !.penaltyScore = HomeworkPenaltyScore(tdoc, journal[k]),
                           !.time = HomeworkTime(tdoc, journal[k])]
                   ELSE journal[k]]
        detail == [p \in DOMAIN eff |-> out[eff[p]]]
        ps == DOMAIN detail
    IN [journal |-> out,
        stats |-> [score |-> SumOver([p \in ps |-> detail[p].score], ps),
                   penaltyScore |-> SumOver([p \in ps |-> detail[p].penaltyScore], ps),
                   time |-> MathSum([p \in ps |-> detail[p].time], ps),
                   detail |-> detail]]

\* ------------------------------------------------- RULES[tdoc.rule].stat
\* the rule's stat: the code of the definition that supplied it, run with
\* this bound by buildContestRule
Stat(tdoc, now, journal) ==
    LET f == RULES[tdoc.rule].stat IN
    CASE f.impl = "acm" -> AcmStat(f.this, tdoc, now, journal)
      [] f.impl = "oi" -> OiStat(f.this, tdoc, now, journal)
      [] f.impl = "strictioi" -> StrictStat(tdoc, journal)
      [] f.impl = "ledo" -> LedoStat(tdoc, journal)
      [] f.impl = "homework" -> HomeworkStat(tdoc, journal)

\* an optional field of the contest document that is set
Has(doc, field) == field \in DOMAIN doc

\* stat raises a TypeError: homework's penaltyScore reads
\* tdoc.penaltySince.getTime() (line 523) for every effective entry and, for
\* one not before penaltySince, Object.keys(tdoc.penaltyRules) (line 527)
StatThrows(tdoc, journal) ==
    /\ RULES[tdoc.rule].stat.impl = "homework"
    /\ LET eff == HomeworkEffective(tdoc, journal) IN
       \E p \in DOMAIN eff :
           \/ ~Has(tdoc, "penaltySince")
           \/ /\ getTimestamp(journal[eff[p]].rid) - tdoc.penaltySince >= 0
              /\ ~Has(tdoc, "penaltyRules")

\* ------------------------------------------------------ ranked (lib/rank)
\* standard competition ranking of a sorted sequence under a tie predicate
\* (equ: the predicate, as a function on pairs of elements)
Ranked(docs, equ) ==
    LET r[i \in 1..Len(docs)] ==
            IF i = 1 \/ ~equ[docs[i - 1], docs[i]] THEN i ELSE r[i - 1]
    IN [i \in 1..Len(docs) |-> <<r[i], docs[i]>>]

\* ties decided by accept alone
AcmTie_AcceptOnly(a, b) == a.accept = b.accept

\* line 217: acm's tie predicate
AcmTie(a, b) == a.accept = b.accept /\ a.time = b.time

\* acm.ranked (lines 216-218)
AcmRanked(docs) ==
    LET elems == {docs[i] : i \in 1..Len(docs)}
    IN Ranked(docs, [a \in elems, b \in elems |-> AcmTie(a, b)])

\* acm.statusSort (line 52): accept descending, then time ascending
AcmSortsBefore(a, b) ==
    a.accept > b.accept \/ (a.accept = b.accept /\ a.time < b.time)

\* the cursor after one more standing is stored, in statusSort order
RECURSIVE InsertStanding(_, _)
InsertStanding(docs, s) ==
    IF docs = <<>> THEN <<s>>
    ELSE IF AcmSortsBefore(s, docs[Len(docs)])
         THEN Append(InsertStanding(SubSeq(docs, 1, Len(docs) - 1), s), docs[Len(docs)])
         ELSE Append(docs, s)

\* ------------------------------------------------------- visibility gates
\* the rule's showScoreboard / showSelfRecord / showRecord; impl is the rule
\* definition that supplied the predicate
showScoreboard(impl, tdoc, now) ==
    CASE impl = "acm" -> now > tdoc.beginAt
      [] impl = "oi" -> now > tdoc.endAt
      [] impl = "ioi" -> now > tdoc.beginAt
      [] impl = "strictioi" -> now > tdoc.endAt
      [] impl = "ledo" -> now > tdoc.beginAt
      [] impl = "homework" -> TRUE

showSelfRecord(impl, tdoc, now) ==
    CASE impl = "acm" -> TRUE
      [] impl = "oi" -> now > tdoc.endAt
      [] impl = "ioi" -> TRUE
      [] impl = "strictioi" -> TRUE
      [] impl = "ledo" -> TRUE
      [] impl = "homework" -> TRUE

showRecord(impl, tdoc, now) ==
    CASE impl = "acm" -> now > tdoc.endAt /\ ~isLocked(tdoc, now)
      [] impl = "oi" -> now > tdoc.endAt /\ ~isLocked(tdoc, now)
      [] impl = "ioi" -> now > tdoc.endAt
      [] impl = "strictioi" -> now > tdoc.endAt
      [] impl = "ledo" -> now > tdoc.endAt
      [] impl = "homework" -> now > tdoc.endAt

Gates == {"canShowScoreboard", "canShowRecord", "canShowSelfRecord"}

\* RULES[tdoc.rule].showX(tdoc, new Date()) of the gate
RuleShows(gate, tdoc, now) ==
    CASE gate = "canShowScoreboard" ->
            showScoreboard(RULES[tdoc.rule].showScoreboard, tdoc, now)
      [] gate = "canShowRecord" -> showRecord(RULES[tdoc.rule].showRecord, tdoc, now)
      [] gate = "canShowSelfRecord" ->
            showSelfRecord(RULES[tdoc.rule].showSelfRecord, tdoc, now)

\* this.user: whether it owns the contest, and the permissions it holds
Users ==
    [own : BOOLEAN,
     perms : {{}, {"PERM_VIEW_CONTEST_HIDDEN_SCOREBOARD"},
              {"PERM_VIEW_HOMEWORK_HIDDEN_SCOREBOARD"}}]

hasPerm(user, perm) == perm \in user.perms

\* the homework permission never asked for
canViewHiddenScoreboard_ContestPermOnly(user, tdoc) ==
    user.own \/ hasPerm(user, "PERM_VIEW_CONTEST_HIDDEN_SCOREBOARD")

\* lines 845-849
canViewHiddenScoreboard(user, tdoc) ==
    IF user.own THEN TRUE
    ELSE IF tdoc.rule = "homework"
         THEN hasPerm(user, "PERM_VIEW_HOMEWORK_HIDDEN_SCOREBOARD")
         ELSE hasPerm(user, "PERM_VIEW_CONTEST_HIDDEN_SCOREBOARD")

\* canShowRecord / canShowSelfRecord / canShowScoreboard (lines 851-867)
canShow(gate, user, tdoc, now, allowPermOverride) ==
    IF RuleShows(gate, tdoc, now) THEN TRUE
    ELSE IF allowPermOverride /\ canViewHiddenScoreboard(user, tdoc) THEN TRUE
    ELSE FALSE

\* ---------------------------------------------------- lifecycle predicates
\* an optional argument that was not passed
Absent == [absent |-> TRUE]

Given(x) == "absent" \notin DOMAIN x

\* lines 771 and 777: tsdoc && tdoc.duration && tsdoc.startAt <= now - duration
\* (an undefined startAt compares false)
BudgetExhausted(tdoc, tsdoc, now) ==
    /\ Given(tsdoc)
    /\ "duration" \in DOMAIN tdoc /\ tdoc.duration # 0
    /\ "startAt" \in DOMAIN tsdoc
    /\ tsdoc.startAt <= now - tdoc.duration * Hour

\* the budget test left out
isOngoing_NoBudget(tdoc, tsdoc, now) == tdoc.beginAt <= now /\ now < tdoc.endAt

\* lines 769-773
isOngoing(tdoc, tsdoc, now) ==
    IF BudgetExhausted(tdoc, tsdoc, now) THEN FALSE
    ELSE tdoc.beginAt <= now /\ now < tdoc.endAt

\* lines 775-779
isDone(tdoc, tsdoc, now) ==
    IF tdoc.endAt <= now THEN TRUE
    ELSE IF BudgetExhausted(tdoc, tsdoc, now) THEN TRUE
    ELSE FALSE

\* at exactly days before beginAt the contest still counts as new
isNew_Inclusive(tdoc, days, now) == now <= tdoc.beginAt - days * Day

\* lines 753-757
isNew(tdoc, days, now) == now < tdoc.beginAt - days * Day

\* lines 759-763
isUpcoming(tdoc, days, now) ==
    now > tdoc.beginAt - days * Day /\ now < tdoc.beginAt

\* lines 884-891; isNew and isUpcoming are called with their default days
statusText(tdoc, tsdoc, now) ==
    IF isNew(tdoc, 1, now) THEN "New"
    ELSE IF isUpcoming(tdoc, 7, now) THEN "Ready"
    ELSE IF isOngoing(tdoc, tsdoc, now) THEN "Live..."
    ELSE "Done"

\* ------------------------------------------------------ scoreboard cells
Cell(type, value, raw) == [type |-> type, value |-> value, raw |-> raw]

RECURSIVE Flatten(_)
Flatten(seqs) == IF seqs = <<>> THEN <<>> ELSE Head(seqs) \o Flatten(Tail(seqs))

\* the identity columns pushed on export (lines 100-105, 257-262)
IdentityHeader(config) ==
    IF config.isExport
    THEN <<Cell("email", <<"Email">>, None), Cell("string", <<"School">>, None),
           Cell("string", <<"Name">>, None), Cell("string", <<"Student ID">>, None)>>
    ELSE <<>>

\* lines 136-141, 287-292, 408-413, 474-479
IdentityRow(config, udoc) ==
    IF config.isExport
    THEN <<Cell("email", <<"mail", udoc.uid>>, None),
           Cell("string", <<"school", udoc.uid>>, None),
           Cell("string", <<"displayName", udoc.uid>>, None),
           Cell("string", <<"studentId", udoc.uid>>, None)>>
    ELSE <<>>

\* the rank and user cells every row starts with
RankUser(rank, udoc, tsdoc) ==
    <<Cell("rank", <<rank>>, None), Cell("user", <<"uname", udoc.uid>>, tsdoc.uid)>>

\* x.f || d
FieldOr(x, f, d) == IF f \in DOMAIN x THEN x[f] ELSE d

\* tsddict[pid]?.rid (undefined: None)
RidOf(doc) == FieldOr(doc, "rid", None)

\* ---------------------------------------------------- acm scoreboard rows
\* lines 95-130
AcmScoreboardHeader(config, tdoc) ==
    <<Cell("rank", <<"#">>, None), Cell("user", <<"User">>, None)>>
    \o IdentityHeader(config)
    \o <<Cell("solved", <<"Solved", "Total Time">>, None)>>
    \o Flatten([i \in 1..Len(tdoc.pids) |->
           IF config.isExport
           THEN <<Cell("string", <<"#", i, "title", tdoc.pids[i]>>, None),
                  Cell("time", <<"#", i, "Penalty (Minutes)">>, None)>>
           ELSE <<Cell("problem", <<"letter", i>>, tdoc.pids[i])>>])

\* Math.ceil(doc.penalty / 60)
CeilMinutes(seconds) == (seconds + 59) \div 60

\* the penalty column of the export forgotten
AcmProblemCells_NoPenaltyColumn(config, doc) ==
    <<Cell(IF config.isExport THEN "string" ELSE "record",
           <<FieldOr(doc, "real", None)>>, RidOf(doc))>>

\* lines 154-180: the cells of one problem
AcmProblemCells(config, doc) ==
    LET accept == HasStatus(doc, STATUS_ACCEPTED)
        colTime == IF accept THEN <<doc.real>> ELSE <<>>
        colPenalty == IF RidOf(doc) # None THEN <<CeilMinutes(doc.penalty)>> ELSE <<>>
    IN IF config.isExport
       THEN <<Cell("string", colTime, None), Cell("string", colPenalty, None)>>
       ELSE <<Cell("record",
                   [accept |-> accept, naccept |-> FieldOr(doc, "naccept", None),
                    npending |-> IF accept THEN 0 ELSE FieldOr(doc, "npending", 0),
                    colTime |-> colTime],
                   RidOf(doc))>>

\* config.lockAt ? tsdoc.display : tsdoc.detail, || {}
Tsddict(config, tsdoc) ==
    IF config.lockAt # None THEN FieldOr(tsdoc, "display", EmptyMap)
    ELSE FieldOr(tsdoc, "detail", EmptyMap)

\* lines 131-182
AcmScoreboardRow(config, tdoc, udoc, rank, tsdoc) ==
    RankUser(rank, udoc, tsdoc)
    \o IdentityRow(config, udoc)
    \o <<Cell("time", <<FieldOr(tsdoc, "accept", 0), FieldOr(tsdoc, "time", 0)>>, None)>>
    \o Flatten([i \in 1..Len(tdoc.pids) |->
           AcmProblemCells(config, Get(Tsddict(config, tsdoc), tdoc.pids[i], EmptyMap))])

\* ----------------------------------------------------- oi scoreboard rows
\* lines 252-281
OiScoreboardHeader(config, tdoc) ==
    <<Cell("rank", <<"#">>, None), Cell("user", <<"User">>, None)>>
    \o IdentityHeader(config)
    \o <<Cell("total_score", <<"Total Score">>, None)>>
    \o Flatten([i \in 1..Len(tdoc.pids) |->
           IF config.isExport
           THEN <<Cell("string", <<"#", i, "title", tdoc.pids[i]>>, None)>>
           ELSE <<Cell("problem", <<"letter", i>>, tdoc.pids[i])>>])

\* lines 304-306: the final judged result differs from the contest's
OiDiverges(config, tdoc, now, doc, psdoc) ==
    /\ ~config.isExport
    /\ config.lockAt = None
    /\ isDone(tdoc, Absent, now)
    /\ RidOf(psdoc) # None
    /\ RidOf(doc) # RidOf(psdoc)

\* lines 302-326: the cell of one problem
OiProblemCell(config, tdoc, now, doc, psdoc) ==
    IF OiDiverges(config, tdoc, now, doc, psdoc)
    THEN Cell("records", <<>>,
              <<[value |-> FieldOr(doc, "score", None), raw |-> RidOf(doc)],
                [value |-> FieldOr(psdoc, "score", None), raw |-> RidOf(psdoc)]>>)
    ELSE Cell("record", <<FieldOr(doc, "score", None), FieldOr(doc, "npending", 0)>>,
              RidOf(doc))

\* lines 282-329; psdict: the participant's final result per problem
OiScoreboardRow(config, tdoc, now, udoc, rank, tsdoc, psdict) ==
    RankUser(rank, udoc, tsdoc)
    \o IdentityRow(config, udoc)
    \o <<Cell("total_score", <<FieldOr(tsdoc, "score", 0)>>, None)>>
    \o [i \in 1..Len(tdoc.pids) |->
           OiProblemCell(config, tdoc, now,
                         Get(Tsddict(config, tsdoc), tdoc.pids[i], EmptyMap),
                         Get(psdict, tdoc.pids[i], EmptyMap))]

\* lines 402-432
StrictScoreboardRow(config, tdoc, udoc, rank, tsdoc) ==
    LET tsddict == FieldOr(tsdoc, "detail", EmptyMap) IN
    RankUser(rank, udoc, tsdoc)
    \o IdentityRow(config, udoc)
    \o <<Cell("total_score", <<FieldOr(tsdoc, "score", 0)>>, None)>>
    \o [i \in 1..Len(tdoc.pids) |->
           LET doc == Get(tsddict, tdoc.pids[i], EmptyMap)
           IN Cell("record",
                   [score |-> FieldOr(doc, "score", 0),
                    hover |-> FieldOr(doc, "subtasks", EmptyMap)],
                   RidOf(doc))]

\* lines 468-502
LedoScoreboardRow(config, tdoc, udoc, rank, tsdoc) ==
    LET tsddict == FieldOr(tsdoc, "detail", EmptyMap) IN
    RankUser(rank, udoc, tsdoc)
    \o IdentityRow(config, udoc)
    \o <<Cell("total_score",
               <<FieldOr(tsdoc, "score", 0), FieldOr(tsdoc, "originalScore", None)>>,
               None)>>
    \o [i \in 1..Len(tdoc.pids) |->
           LET doc == Get(tsddict, tdoc.pids[i], EmptyMap)
           IN Cell("record",
                   [penaltyScore |-> FieldOr(doc, "penaltyScore", 0),
                    ntry |-> FieldOr(doc, "ntry", 0)],
                   RidOf(doc))]

\* ----------------------------------------------- homework scoreboard rows
\* lines 550-587
HomeworkScoreboardHeader(config, tdoc) ==
    <<Cell("rank", <<"Rank">>, None), Cell("user", <<"User">>, None),
      Cell("total_score", <<"Score">>, None)>>
    \o (IF config.isExport THEN <<Cell("string", <<"Original Score">>, None)>> ELSE <<>>)
    \o <<Cell("time", <<"Total Time">>, None)>>
    \o Flatten([i \in 1..Len(tdoc.pids) |->
           IF config.isExport
           THEN <<Cell("string", <<"#", i, "title", tdoc.pids[i]>>, None),
                  Cell("string", <<"#", i, "Original Score">>, None),
                  Cell("time", <<"#", i, "Time (Seconds)">>, None)>>
           ELSE <<Cell("problem", <<"letter", i>>, tdoc.pids[i])>>])

\* lines 611-633: the cells of one problem
HomeworkProblemCells(config, doc) ==
    LET colScore == FieldOr(doc, "penaltyScore", None)
        colOriginalScore == FieldOr(doc, "score", None)
        colTime == IF FieldOr(doc, "time", 0) = 0 THEN None ELSE doc.time
    IN IF config.isExport
       THEN <<Cell("string", <<colScore>>, None),
              Cell("string", <<colOriginalScore>>, None),
              Cell("time", <<colTime>>, None)>>
       ELSE <<Cell("record", <<colScore, colOriginalScore, colTime>>, RidOf(doc))>>

\* lines 588-635
HomeworkScoreboardRow(config, tdoc, udoc, rank, tsdoc) ==
    LET tsddict == FieldOr(tsdoc, "detail", EmptyMap) IN
    RankUser(rank, udoc, tsdoc)
    \o <<Cell("string", <<FieldOr(tsdoc, "penaltyScore", 0)>>, None)>>
    \o (IF config.isExport
        THEN <<Cell("string", <<FieldOr(tsdoc, "score", 0)>>, None)>> ELSE <<>>)
    \o <<Cell("time", <<FieldOr(tsdoc, "time", 0)>>, FieldOr(tsdoc, "time", None))>>
    \o Flatten([i \in 1..Len(tdoc.pids) |->
           HomeworkProblemCells(config, Get(tsddict, tdoc.pids[i], EmptyMap))])

\* ------------------------------------------------------------ scoreboard
ScoreboardHeader(impl, config, tdoc) ==
    CASE impl = "acm" -> AcmScoreboardHeader(config, tdoc)
      [] impl = "oi" -> OiScoreboardHeader(config, tdoc)
      [] impl = "homework" -> HomeworkScoreboardHeader(config, tdoc)

ScoreboardRow(impl, config, tdoc, now, udoc, rank, tsdoc, meta) ==
    CASE impl = "acm" -> AcmScoreboardRow(config, tdoc, udoc, rank, tsdoc)
      [] impl = "oi" -> OiScoreboardRow(config, tdoc, now, udoc, rank, tsdoc,
                                        Get(meta.psdict, tsdoc.uid, EmptyMap))
      [] impl = "strictioi" -> StrictScoreboardRow(config, tdoc, udoc, rank, tsdoc)
      [] impl = "ledo" -> LedoScoreboardRow(config, tdoc, udoc, rank, tsdoc)
      [] impl = "homework" -> HomeworkScoreboardRow(config, tdoc, udoc, rank, tsdoc)

\* the journal entries a row counts for a problem (lines 147-152, 294-299,
\* 415-419, 485-489, 606-610): the acm and oi rows leave out those after
\* config.lockAt
CutsAtLock(impl, config) == impl \in {"acm", "oi"} /\ config.lockAt # None

Counted(impl, config, journal, pid) ==
    {k \in 1..Len(journal) :
        /\ journal[k].pid = pid
        /\ ~(CutsAtLock(impl, config)
               /\ getTimestamp(journal[k].rid) > config.lockAt)}

\* pdict after the header reset the counters and the rows counted
Pdict(impl, config, tdoc, cursor) ==
    [pid \in {tdoc.pids[i] : i \in 1..Len(tdoc.pids)} |->
        [nSubmit |->
            SumOver([u \in 1..Len(cursor) |->
                        Cardinality(Counted(impl, config, cursor[u].journal, pid))],
                    1..Len(cursor)),
         nAccept |->
            SumOver([u \in 1..Len(cursor) |->
                        Cardinality({k \in Counted(impl, config, cursor[u].journal, pid) :
                                        cursor[u].journal[k].status = STATUS_ACCEPTED})],
                    1..Len(cursor))]]

\* the tie predicate scoreboard hands to ranked (lines 184, 331, 637)
ScoreboardTie(impl, a, b) ==
    IF impl = "acm"
    THEN FieldOr(a, "score", None) = FieldOr(b, "score", None)
            /\ FieldOr(a, "time", None) = FieldOr(b, "time", None)
    ELSE FieldOr(a, "score", None) = FieldOr(b, "score", None)

\* scoreboard (lines 183-215, 330-366, 636-648), run as impl's code with this
\* bound; psdocs: the problem status documents read once the contest is done
scoreboard(impl, this, config, tdoc, now, cursor, psdocs) ==
    LET elems == {cursor[i] : i \in 1..Len(cursor)}
        rankedDocs == Ranked(cursor, [a \in elems, b \in elems |->
                                         ScoreboardTie(impl, a, b)])
        psdict == IF impl = "oi" /\ isDone(tdoc, Absent, now) THEN psdocs ELSE EmptyMap
        header == RULES[this].scoreboardHeader
        row == RULES[this].scoreboardRow
        columns == ScoreboardHeader(header.impl, config, tdoc)
    IN [rows |-> <<columns>> \o
                 [i \in 1..Len(rankedDocs) |->
                     ScoreboardRow(row.impl, config, tdoc, now,
                                   [uid |-> rankedDocs[i][2].uid], rankedDocs[i][1],
                                   rankedDocs[i][2], [psdict |-> psdict])],
        pdict |-> Pdict(row.impl, config, tdoc, cursor),
        ran |-> [scoreboard |-> impl, scoreboardHeader |-> header.impl,
                 scoreboardRow |-> row.impl]]

\* -------------------------------------------------------- unlockScoreboard
\* the edit made whatever the contest holds
unlockScoreboard_Always(tdoc) == <<[unlocked |-> TRUE]>>

\* unlockScoreboard (lines 839-843): the $set documents it hands to edit
unlockScoreboard(tdoc) ==
    IF tdoc.lockAt = None \/ tdoc.unlocked THEN <<>>
    ELSE <<[unlocked |-> TRUE]>>

\* ----------------------------------------------------------- getScoreboard
\* the scoreboard built and announced although the gate refused
getScoreboard_ChecksLast(user, config, tdoc, now, cursor, psdocs) ==
    LET f == RULES[tdoc.rule].scoreboard
        r == scoreboard(f.impl, f.this, config, tdoc, now, cursor, psdocs)
        effects == <<"getMultiStatus", "problem.getList", "scoreboard",
                     "contest/scoreboard">>
    IN IF ~canShow("canShowScoreboard", user, tdoc, now, TRUE)
       THEN [thrown |-> "ContestScoreboardHiddenError", effects |-> effects]
       ELSE [thrown |-> "none", effects |-> effects, rows |-> r.rows,
             pdict |-> r.pdict]

\* getScoreboard (lines 869-882): what it raises or returns, and what it did
\* on the way, in order: the standings cursor opened, the problems fetched,
\* the rule's scoreboard run, the bus event emitted
getScoreboard(user, config, tdoc, now, cursor, psdocs) ==
    IF ~canShow("canShowScoreboard", user, tdoc, now, TRUE)
    THEN [thrown |-> "ContestScoreboardHiddenError", effects |-> <<>>]
    ELSE LET f == RULES[tdoc.rule].scoreboard
             r == scoreboard(f.impl, f.this, config, tdoc, now, cursor, psdocs)
         IN [thrown |-> "none",
             effects |-> <<"getMultiStatus", "problem.getList", "scoreboard",
                           "contest/scoreboard">>,
             rows |-> r.rows, pdict |-> r.pdict]

\* ------------------------------------------------------------------- state
VARIABLES
    tdoc,      \* the contest document
    now,       \* the current instant
    tsdoc,     \* the participant's status document: journal and aggregates
    cursor,    \* the standings cursor handed to ranked, sorted by statusSort
    rankedTsdocs,  \* what ranked returned for cursor (<<>> before any call)
    tdocs,     \* the contest collection: docId -> contest document
    call,      \* the last call that reported an outcome: operation, outcome
    calls      \* the calls in flight: what each has read and computed so far

vars == <<tdoc, now, tsdoc, cursor, rankedTsdocs, tdocs, call, calls>>
rankVars == <<cursor, rankedTsdocs>>
docVars == <<tdocs, call>>

NoCall == [op |-> "none"]

Tdoc(rule, lockAt) ==
    [rule |-> rule, beginAt |-> BeginAt, endAt |-> EndAt, lockAt |-> lockAt,
     unlocked |-> FALSE, pids |-> Pids, penaltySince |-> PenaltySince,
     penaltyRules |-> (0 :> 50 @@ 1 :> 0)]

Init ==
    /\ \E rule \in RuleNames, lockAt \in {None, LockTime} : tdoc = Tdoc(rule, lockAt)
    /\ now = BeginAt
    /\ tsdoc = [journal |-> <<>>, stats |-> EmptyMap]
    /\ cursor = <<>>
    /\ rankedTsdocs = <<>>
    /\ tdocs = EmptyMap
    /\ call = NoCall
    /\ calls = EmptyMap

\* revSetStatus: $set of { journal, ...stats }
SetStatus(r) == tsdoc' = [journal |-> r.journal, stats |-> r.stats]

\* an exception leaves the call: it is what the call reports
Throws(op, error) == call' = [op |-> op, thrown |-> error]

\* updateStatus / _updateStatus (lines 712-730): the entry is pushed, the
\* journal sorted, stat run on it and journal and aggregates written back;
\* when stat raises, the push (line 716) is all that was stored
UpdateStatus(rid, pid, v) ==
    /\ Len(tsdoc.journal) < MaxJournal
    /\ \A k \in 1..Len(tsdoc.journal) : tsdoc.journal[k].rid # rid
    /\ LET pushed == Append(tsdoc.journal, NewEntry(rid, pid, v))
           journal == getStatusJournal(pushed)
       IN IF StatThrows(tdoc, journal)
          THEN /\ tsdoc' = [tsdoc EXCEPT !.journal = pushed]
               /\ Throws("updateStatus", "TypeError")
          ELSE /\ SetStatus(Stat(tdoc, now, journal))
               /\ UNCHANGED call
    /\ UNCHANGED <<tdoc, now, rankVars, tdocs, calls>>

\* recalcStatus (lines 818-837)
RecalcStatus ==
    /\ tsdoc.journal # <<>>
    /\ LET journal == getStatusJournal(tsdoc.journal)
       IN IF StatThrows(tdoc, journal)
          THEN /\ UNCHANGED tsdoc
               /\ Throws("recalcStatus", "TypeError")
          ELSE /\ SetStatus(Stat(tdoc, now, journal))
               /\ UNCHANGED call
    /\ UNCHANGED <<tdoc, now, rankVars, tdocs, calls>>

\* unlockScoreboard (lines 839-843)
UnlockScoreboard ==
    /\ tdoc.lockAt # None
    /\ ~tdoc.unlocked
    /\ tdoc' = [tdoc EXCEPT !.unlocked = TRUE]
    /\ UNCHANGED <<now, tsdoc, rankVars, docVars, calls>>

\* time passes
Tick ==
    /\ now < MaxTime
    /\ now' = now + 1
    /\ UNCHANGED <<tdoc, tsdoc, rankVars, docVars, calls>>

\* submissions to any problem, also one that is not (or no longer) in pids
Next ==
    \/ \E rid \in BeginAt..now, pid \in AllPids, v \in Verdicts : UpdateStatus(rid, pid, v)
    \/ RecalcStatus
    \/ UnlockScoreboard
    \/ Tick

Spec == Init /\ [][Next]_vars

\* ------------------------------------- contests whose scoreboard freezes
ContestPids == {Pids[i] : i \in 1..Len(Pids)}

\* submissions to the contest's own problems
NextContest ==
    \/ \E rid \in BeginAt..now, pid \in ContestPids, v \in Verdicts :
          UpdateStatus(rid, pid, v)
    \/ RecalcStatus
    \/ UnlockScoreboard
    \/ Tick

\* the rules whose stat builds a display view, with a freeze instant set
InitFreeze ==
    /\ Init
    /\ tdoc.rule \in {"acm", "oi", "ioi"}
    /\ tdoc.lockAt = LockTime

SpecFreeze == InitFreeze /\ [][NextContest]_vars

InitStrict ==
    /\ Init
    /\ tdoc.rule = "strictioi"
    /\ tdoc.lockAt = LockTime

SpecStrict == InitStrict /\ [][NextContest]_vars

\* ------------------------------------------------- the Ledo specification
\* a Ledo contest with no freeze; one submission a second, judged at once
LedoVerdicts == {v \in Verdicts : v.score \in {0, 50, 100}}

InitLedo ==
    /\ tdoc = Tdoc("ledo", None)
    /\ now = BeginAt
    /\ \/ tsdoc = [journal |-> <<>>, stats |-> EmptyMap]
       \/ LET r == Stat(tdoc, now, <<NewEntry(BeginAt, 2,
                                     CHOOSE v \in Verdicts : v.score = 50)>>)
          IN tsdoc = [journal |-> r.journal, stats |-> r.stats]
    /\ cursor = <<>>
    /\ rankedTsdocs = <<>>
    /\ tdocs = EmptyMap
    /\ call = NoCall
    /\ calls = EmptyMap

\* a second passes and updateStatus records the submission made in it
LedoSubmit(v) ==
    /\ Len(tsdoc.journal) < MaxLedoJournal
    /\ now' = now + 1
    /\ LET journal == getStatusJournal(Append(tsdoc.journal, NewEntry(now', 1, v)))
       IN SetStatus(Stat(tdoc, now', journal))
    /\ UNCHANGED <<tdoc, rankVars, docVars, calls>>

NextLedo == \E v \in LedoVerdicts : LedoSubmit(v)

SpecLedo == InitLedo /\ [][NextLedo]_vars

\* ---------------------------------------------- the ranking specification
Standing(uid, accept, time) == [uid |-> uid, accept |-> accept, time |-> time]

InitRank ==
    /\ tdoc = Tdoc("acm", None)
    /\ now = BeginAt
    /\ tsdoc = [journal |-> <<>>, stats |-> EmptyMap]
    /\ cursor = <<>>
    /\ rankedTsdocs = <<>>
    /\ tdocs = EmptyMap
    /\ call = NoCall
    /\ calls = EmptyMap

\* one more participant's standing is stored; an earlier result is dropped
AddStanding(accept, time) ==
    /\ Len(cursor) < MaxStandings
    /\ cursor' = InsertStanding(cursor, Standing(Len(cursor) + 1, accept, time))
    /\ rankedTsdocs' = <<>>
    /\ UNCHANGED <<tdoc, now, tsdoc, docVars, calls>>

\* acm.ranked(tdoc, cursor)
RankStandings ==
    /\ cursor # <<>>
    /\ rankedTsdocs' = AcmRanked(cursor)
    /\ UNCHANGED <<tdoc, now, tsdoc, cursor, docVars, calls>>

NextRank ==
    \/ \E accept \in 0..MaxKey, time \in 0..MaxKey : AddStanding(accept, time)
    \/ RankStandings

SpecRank == InitRank /\ [][NextRank]_vars

\* ------------------------------- contests without the optional settings
\* a document without some of its fields
Without(doc, fields) == [f \in (DOMAIN doc) \ fields |-> doc[f]]

\* results judged without subtasks
BareVerdicts ==
    {[status |-> STATUS_ACCEPTED, score |-> 100, subtasks |-> EmptyMap],
     [status |-> STATUS_WRONG_ANSWER, score |-> 30, subtasks |-> EmptyMap]}

\* a contest of any rule, with or without penaltySince / penaltyRules
InitOptional ==
    /\ \E rule \in RuleNames,
          missing \in {{}, {"penaltyRules"}, {"penaltySince", "penaltyRules"}} :
          tdoc = Without(Tdoc(rule, None), missing)
    /\ now = BeginAt
    /\ tsdoc = [journal |-> <<>>, stats |-> EmptyMap]
    /\ cursor = <<>>
    /\ rankedTsdocs = <<>>
    /\ tdocs = EmptyMap
    /\ call = NoCall
    /\ calls = EmptyMap

NextOptional ==
    \/ \E rid \in BeginAt..now, pid \in ContestPids, v \in BareVerdicts :
          UpdateStatus(rid, pid, v)
    \/ RecalcStatus
    \/ Tick

SpecOptional == InitOptional /\ [][NextOptional]_vars

\* ------------------------------------------- asking the lifecycle predicates
\* the instants the clock is read at: on the hour and a second later
LifeInstants == {h * Hour + d : h \in 0..MaxHours, d \in {0, 1}}

\* a contest from second 1 to the end of hour 2, with or without a duration
\* budget of one hour; a participant who started at some instant, or has no
\* startAt
InitLife ==
    /\ \E duration \in {0, 1} :
          tdoc = Spread(Tdoc("acm", None),
                        [beginAt |-> 1, endAt |-> 2 * Hour, duration |-> duration])
    /\ now = BeginAt
    /\ \/ tsdoc = [journal |-> <<>>, stats |-> EmptyMap]
       \/ \E startAt \in {1, Hour} :
             tsdoc = [journal |-> <<>>, stats |-> EmptyMap, startAt |-> startAt]
    /\ cursor = <<>>
    /\ rankedTsdocs = <<>>
    /\ tdocs = EmptyMap
    /\ call = NoCall
    /\ calls = EmptyMap

\* time passes
Advance(instant) ==
    /\ instant > now
    /\ now' = instant
    /\ UNCHANGED <<tdoc, tsdoc, rankVars, docVars, calls>>

\* isOngoing(tdoc, tsdoc?) / isDone(tdoc, tsdoc?) is asked, now
IsOngoing(arg) ==
    /\ call' = [op |-> "isOngoing", tdoc |-> tdoc, tsdoc |-> arg, now |-> now,
                result |-> isOngoing(tdoc, arg, now)]
    /\ UNCHANGED <<tdoc, now, tsdoc, rankVars, tdocs, calls>>

IsDone(arg) ==
    /\ call' = [op |-> "isDone", tdoc |-> tdoc, tsdoc |-> arg, now |-> now,
                result |-> isDone(tdoc, arg, now)]
    /\ UNCHANGED <<tdoc, now, tsdoc, rankVars, tdocs, calls>>

NextLife ==
    \/ \E instant \in LifeInstants : Advance(instant)
    \/ \E arg \in {Absent, tsdoc} : IsOngoing(arg)
    \/ \E arg \in {Absent, tsdoc} : IsDone(arg)

SpecLife == InitLife /\ [][NextLife]_vars

\* ---------------------------------------------------- asking statusText
\* a contest that begins on day 8 and lasts two hours
TextBeginAt == 8 * Day

\* the instants the clock is read at: around seven days and one day before
\* beginAt, and around each hour from beginAt on
TextInstants ==
    {TextBeginAt - k * Day + d : k \in {1, 7}, d \in {-1, 0, 1}}
    \cup {TextBeginAt + h * Hour + d : h \in 0..MaxHours, d \in {-1, 0, 1}}

\* with or without a duration budget of one hour; a participant without
\* startAt, or who started a day early, at beginAt or an hour later
InitText ==
    /\ \E duration \in {0, 1} :
          tdoc = Spread(Tdoc("acm", None),
                        [beginAt |-> TextBeginAt, endAt |-> TextBeginAt + 2 * Hour,
                         duration |-> duration])
    /\ now = TextBeginAt - 7 * Day - 1
    /\ \/ tsdoc = [journal |-> <<>>, stats |-> EmptyMap]
       \/ \E startAt \in {TextBeginAt - Day, TextBeginAt, TextBeginAt + Hour} :
             tsdoc = [journal |-> <<>>, stats |-> EmptyMap, startAt |-> startAt]
    /\ cursor = <<>>
    /\ rankedTsdocs = <<>>
    /\ tdocs = EmptyMap
    /\ call = NoCall
    /\ calls = EmptyMap

\* statusText(tdoc, tsdoc?) is asked, now
StatusText(arg) ==
    /\ call' = [op |-> "statusText", tdoc |-> tdoc, tsdoc |-> arg, now |-> now,
                result |-> statusText(tdoc, arg, now)]
    /\ UNCHANGED <<tdoc, now, tsdoc, rankVars, tdocs, calls>>

NextText ==
    \/ \E instant \in TextInstants : Advance(instant)
    \/ \E arg \in {Absent, tsdoc} : StatusText(arg)

SpecText == InitText /\ [][NextText]_vars

\* ------------------------------------------------ the contest collection
\* what add and edit are called with: a rule name that may be unknown, and
\* instants in any order
RuleInputs == {"acm", "homework", "bogus"}
Instants == BeginAt..EndAt

\* check of every rule definition is () => { }: it never throws
check(rule, data) == TRUE

\* add (lines 662-679); the new document takes the next free docId
add(rule, beginAt, endAt) ==
    /\ Cardinality(DOMAIN tdocs) < MaxContests
    /\ LET args == [rule |-> rule, beginAt |-> beginAt, endAt |-> endAt] IN
       IF rule \notin DOMAIN RULES \/ beginAt >= endAt
       THEN /\ call' = [op |-> "add", args |-> args,
                        thrown |-> "ValidationError", events |-> <<>>]
            /\ UNCHANGED tdocs
       ELSE /\ check(rule, args)
            /\ tdocs' = Put(tdocs, Cardinality(DOMAIN tdocs) + 1,
                            [rule |-> rule, beginAt |-> beginAt, endAt |-> endAt,
                             unlocked |-> FALSE])
            /\ call' = [op |-> "add", args |-> args, thrown |-> "none",
                        events |-> <<"contest/before-add", "contest/add">>]
    /\ UNCHANGED <<tdoc, now, tsdoc, rankVars, calls>>

\* the $set documents edit is called with
Sets ==
    [rule : RuleInputs] \cup [beginAt : Instants] \cup [endAt : Instants]
        \cup [unlocked : {TRUE}]

\* edit (lines 681-687)
edit(tid, set) ==
    /\ LET args == [tid |-> tid, set |-> set] IN
       IF "rule" \in DOMAIN set /\ set.rule \notin DOMAIN RULES
       THEN /\ call' = [op |-> "edit", args |-> args,
                        thrown |-> "ValidationError", events |-> <<>>]
            /\ UNCHANGED tdocs
       ELSE IF tid \notin DOMAIN tdocs
       THEN /\ call' = [op |-> "edit", args |-> args,
                        thrown |-> "ContestNotFoundError", events |-> <<>>]
            /\ UNCHANGED tdocs
       ELSE /\ check(IF "rule" \in DOMAIN set THEN set.rule ELSE tdocs[tid].rule,
                     Spread(tdocs[tid], set))
            /\ tdocs' = [tdocs EXCEPT ![tid] = Spread(tdocs[tid], set)]
            /\ call' = [op |-> "edit", args |-> args, thrown |-> "none",
                        events |-> <<>>]
    /\ UNCHANGED <<tdoc, now, tsdoc, rankVars, calls>>

NextContests ==
    \/ \E rule \in RuleInputs, beginAt \in Instants, endAt \in Instants :
          add(rule, beginAt, endAt)
    \/ \E tid \in 1..MaxContests, set \in Sets : edit(tid, set)

SpecContests == InitRank /\ [][NextContests]_vars

\* ------------------------------------------------- asking the gates
\* a gate is asked about the contest, now
CanShow(gate, user, allowPermOverride) ==
    /\ call' = [op |-> gate, tdoc |-> tdoc, now |-> now, user |-> user,
                allowPermOverride |-> allowPermOverride,
                result |-> canShow(gate, user, tdoc, now, allowPermOverride)]
    /\ UNCHANGED <<tdoc, now, tsdoc, rankVars, tdocs, calls>>

NextGate ==
    \/ \E gate \in Gates, user \in Users, allowPermOverride \in BOOLEAN :
          CanShow(gate, user, allowPermOverride)
    \/ UnlockScoreboard
    \/ Tick

SpecGate == Init /\ [][NextGate]_vars

\* ------------------------------------------------ building scoreboards
PidLists == {<<>>, <<1>>, <<1, 2>>, <<2, 1>>}

BoardVerdicts == {v \in Verdicts : v.score \in {30, 100}}

\* a rid no contest submission has: a submission judged after the contest
FinalRid == 99

\* the participant's problem status documents: none, or a later result
Psdocs == {EmptyMap, 1 :> (1 :> [rid |-> FinalRid, score |-> 100])}

Configs == [isExport : BOOLEAN, lockAt : {None, LockTime}]

InitBoard ==
    /\ \E rule \in RuleNames, lockAt \in {None, LockTime}, pids \in PidLists :
          tdoc = [Tdoc(rule, lockAt) EXCEPT !.pids = pids]
    /\ now = BeginAt
    /\ tsdoc = [journal |-> <<>>, stats |-> EmptyMap]
    /\ cursor = <<>>
    /\ rankedTsdocs = <<>>
    /\ tdocs = EmptyMap
    /\ call = NoCall
    /\ calls = EmptyMap

\* a second passes and updateStatus records the submission made in it
BoardSubmit(pid, v) ==
    /\ Len(tsdoc.journal) < MaxBoardJournal
    /\ now' = now + 1
    /\ LET journal == getStatusJournal(Append(tsdoc.journal, NewEntry(now', pid, v)))
       IN SetStatus(Stat(tdoc, now', journal))
    /\ UNCHANGED <<tdoc, rankVars, docVars, calls>>

\* the status document as the standings cursor yields it
Standing1 == Spread([uid |-> 1, journal |-> tsdoc.journal], tsdoc.stats)

\* RULES[tdoc.rule].scoreboard(config, _, tdoc, pdict, cursor) (line 876)
Scoreboard(config, psdocs) ==
    /\ LET f == RULES[tdoc.rule].scoreboard
           r == scoreboard(f.impl, f.this, config, tdoc, now, <<Standing1>>, psdocs)
       IN call' = [op |-> "scoreboard", config |-> config, tdoc |-> tdoc,
                   now |-> now, tsdoc |-> Standing1, rows |-> r.rows, pdict |-> r.pdict,
                   ran |-> r.ran]
    /\ UNCHANGED <<tdoc, now, tsdoc, rankVars, tdocs, calls>>

NextBoard ==
    \/ \E pid \in ContestPids, v \in BoardVerdicts : BoardSubmit(pid, v)
    \/ \E config \in Configs, psdocs \in Psdocs : Scoreboard(config, psdocs)

SpecBoard == InitBoard /\ [][NextBoard]_vars

\* --------------------------------------------- unlocking, while it runs
\* a contest nobody attends yet, with or without a freeze instant
InitUnlock ==
    /\ \E rule \in {"acm", "oi"}, lockAt \in {None, LockTime} :
          tdoc = Spread(Tdoc(rule, lockAt), [attend |-> 0])
    /\ now = BeginAt
    /\ tsdoc = [journal |-> <<>>, stats |-> EmptyMap]
    /\ cursor = <<>>
    /\ rankedTsdocs = <<>>
    /\ tdocs = EmptyMap
    /\ call = NoCall
    /\ calls = EmptyMap

\* unlockScoreboard: edit stores each $set document (document.set, line 686)
UnlockRequest ==
    /\ LET sets == unlockScoreboard(tdoc)
       IN /\ tdoc' = (IF sets = <<>> THEN tdoc ELSE Spread(tdoc, sets[1]))
          /\ call' = [op |-> "unlockScoreboard", tdoc |-> tdoc, sets |-> sets]
    /\ UNCHANGED <<now, tsdoc, rankVars, tdocs, calls>>

\* attend (lines 739-747): the participant's capped attend flag, then the
\* contest's attend count; the model's one participant attends once
Attend ==
    /\ IF tdoc.attend >= 1
       THEN /\ Throws("attend", "ContestAlreadyAttendedError")
            /\ UNCHANGED tdoc
       ELSE /\ tdoc' = [tdoc EXCEPT !.attend = tdoc.attend + 1]
            /\ call' = [op |-> "attend", thrown |-> "none"]
    /\ UNCHANGED <<now, tsdoc, rankVars, tdocs, calls>>

NextUnlock ==
    \/ UnlockRequest
    \/ \E rid \in BeginAt..now, v \in BoardVerdicts : UpdateStatus(rid, 1, v)
    \/ RecalcStatus
    \/ Attend
    \/ Tick

SpecUnlock == InitUnlock /\ [][NextUnlock]_vars

\* ------------------------------------------------ requesting scoreboards
\* a participant who attended and never submitted
Attended == [uid |-> 2, journal |-> <<>>]

\* what getMultiStatus(...).sort(statusSort) yields: no participant, the
\* submitting one, or both
Cursors == {<<>>, <<Standing1>>, <<Standing1, Attended>>}

\* a user requests the scoreboard, now
GetScoreboard(user, config, docs) ==
    /\ call' = Spread([op |-> "getScoreboard", tdoc |-> tdoc, now |-> now,
                       user |-> user, config |-> config, cursor |-> docs],
                      getScoreboard(user, config, tdoc, now, docs, EmptyMap))
    /\ UNCHANGED <<tdoc, now, tsdoc, rankVars, tdocs, calls>>

\* a contest of any rule whose participant has submitted nothing or once
InitRequest ==
    /\ \E rule \in RuleNames, lockAt \in {None, LockTime} : tdoc = Tdoc(rule, lockAt)
    /\ now = BeginAt
    /\ \/ tsdoc = [journal |-> <<>>, stats |-> EmptyMap]
       \/ LET r == Stat(tdoc, now, <<NewEntry(BeginAt, 1,
                                     CHOOSE v \in Verdicts : v.score = 100)>>)
          IN tsdoc = [journal |-> r.journal, stats |-> r.stats]
    /\ cursor = <<>>
    /\ rankedTsdocs = <<>>
    /\ tdocs = EmptyMap
    /\ call = NoCall
    /\ calls = EmptyMap

NextRequest ==
    \/ \E user \in Users, config \in Configs, docs \in Cursors :
          GetScoreboard(user, config, docs)
    \/ Tick

SpecRequest == InitRequest /\ [][NextRequest]_vars

\* ---------------------------------------------------- concurrent calls
\* each call is a sequence of awaited steps; steps of different calls
\* interleave. The status document carries the revision counter rev.
CallIds == 1..MaxCalls

Idle == [pc |-> "idle"]

\* rids of the submissions judged while the calls run
RaceRids == {1, 2}

\* a contest of any rule, one second after its freeze instant (if it has
\* one); the participant has not submitted
InitRace ==
    /\ \E rule \in RuleNames, lockAt \in {None, LockTime} : tdoc = Tdoc(rule, lockAt)
    /\ now = LockTime + 1
    /\ tsdoc = [journal |-> <<>>, stats |-> EmptyMap, rev |-> 0]
    /\ cursor = <<>>
    /\ rankedTsdocs = <<>>
    /\ tdocs = EmptyMap
    /\ call = NoCall
    /\ calls = [c \in CallIds |-> Idle]

\* updateStatus, line 728: get(domainId, tid) reads the contest
UpdateStatusGet(c, rid, v) ==
    /\ calls[c].pc = "idle"
    /\ \A d \in CallIds : "entry" \in DOMAIN calls[d] => calls[d].entry.rid # rid
    /\ calls' = [calls EXCEPT ![c] =
                    [op |-> "updateStatus", pc |-> "push", tdoc |-> tdoc,
                     entry |-> NewEntry(rid, 1, v)]]
    /\ UNCHANGED <<tdoc, now, tsdoc, rankVars, docVars>>

\* _updateStatus, lines 716-720: revPushStatus pushes the entry and bumps
\* rev in one step and returns the document; the journal is sorted and stat
\* run on it with the contest the call read
RevPushStatus(c) ==
    /\ calls[c].pc = "push"
    /\ LET pushed == Append(tsdoc.journal, calls[c].entry)
           r == Stat(calls[c].tdoc, now, getStatusJournal(pushed))
       IN /\ tsdoc' = [tsdoc EXCEPT !.journal = pushed, !.rev = tsdoc.rev + 1]
          /\ calls' = [calls EXCEPT ![c] =
                          Spread(calls[c], [pc |-> "set", rev |-> tsdoc.rev + 1,
                                            journal |-> r.journal, stats |-> r.stats])]
    /\ UNCHANGED <<tdoc, now, rankVars, docVars>>

\* revSetStatus (lines 721, 829-832): journal and aggregates are stored and
\* rev bumped if the document still has the rev the call read; if not,
\* nothing is stored
RevSetStatus(c) ==
    /\ calls[c].pc = "set"
    /\ tsdoc' = (IF tsdoc.rev = calls[c].rev
                 THEN [journal |-> calls[c].journal, stats |-> calls[c].stats,
                       rev |-> tsdoc.rev + 1]
                 ELSE tsdoc)
    /\ calls' = [calls EXCEPT ![c] = Spread(calls[c], [pc |-> "done"])]
    /\ UNCHANGED <<tdoc, now, rankVars, docVars>>

\* recalcStatus, lines 819-822: the contest and the status documents are
\* requested together; began: what the contest held when the call began
RecalcStart(c) ==
    /\ calls[c].pc = "idle"
    /\ calls' = [calls EXCEPT ![c] = [op |-> "recalcStatus", pc |-> "read",
                                      began |-> [unlocked |-> tdoc.unlocked]]]
    /\ UNCHANGED <<tdoc, now, tsdoc, rankVars, docVars>>

\* lines 824-833 once both reads have answered: a document with a journal
\* gets stat run on it and a revSetStatus; without one, nothing is written
RecalcRead(rec) ==
    IF ~("tdoc" \in DOMAIN rec /\ "read" \in DOMAIN rec) THEN rec
    ELSE IF rec.read.journal = <<>> THEN Spread(rec, [pc |-> "done"])
    ELSE LET r == Stat(rec.tdoc, now, getStatusJournal(rec.read.journal))
         IN Spread(rec, [pc |-> "set", rev |-> rec.read.rev,
                         journal |-> r.journal, stats |-> r.stats])

\* document.get answers
RecalcGetContest(c) ==
    /\ calls[c].pc = "read"
    /\ "tdoc" \notin DOMAIN calls[c]
    /\ calls' = [calls EXCEPT ![c] = RecalcRead(Spread(calls[c], [tdoc |-> tdoc]))]
    /\ UNCHANGED <<tdoc, now, tsdoc, rankVars, docVars>>

\* document.getMultiStatus answers
RecalcGetStatus(c) ==
    /\ calls[c].pc = "read"
    /\ "read" \notin DOMAIN calls[c]
    /\ calls' = [calls EXCEPT ![c] = RecalcRead(Spread(calls[c], [read |-> tsdoc]))]
    /\ UNCHANGED <<tdoc, now, tsdoc, rankVars, docVars>>

NextRace ==
    \/ \E c \in CallIds, rid \in RaceRids, v \in BoardVerdicts : UpdateStatusGet(c, rid, v)
    \/ \E c \in CallIds : RevPushStatus(c)
    \/ \E c \in CallIds : RevSetStatus(c)
    \/ \E c \in CallIds : RecalcStart(c)
    \/ \E c \in CallIds : RecalcGetContest(c)
    \/ \E c \in CallIds : RecalcGetStatus(c)

SpecRace == InitRace /\ [][NextRace]_vars

\* a locked acm / oi / ioi contest that is unlocked while calls run
InitThaw ==
    /\ InitRace
    /\ tdoc.rule \in {"acm", "oi", "ioi"}
    /\ tdoc.lockAt = LockTime

NextThaw ==
    \/ NextRace
    \/ UnlockScoreboard

SpecThaw == InitThaw /\ [][NextThaw]_vars

\* ================================================================== claims
J == tsdoc.journal

StatNow(journal) == Stat(tdoc, now, journal)

\* the journals updateStatus can hand to stat in this state: the stored
\* journal with one more entry pushed, sorted
Pushed ==
    {getStatusJournal(Append(J, NewEntry(rid, pid, v))) :
        rid \in {r \in BeginAt..now : \A k \in 1..Len(J) : J[k].rid # r},
        pid \in AllPids, v \in Verdicts}

HasDisplay(stats) == "display" \in DOMAIN stats
HasDetail(stats) == "detail" \in DOMAIN stats

\* C1: stat run twice in a row on the same journal entries returns the same
\* aggregates (totals, detail, display) both times.
C1_StatIdempotent ==
    \A journal \in Pushed \cup {J} :
        LET first == StatNow(journal)
            second == StatNow(first.journal)
        IN second.stats = first.stats

\* a display entry without its pending count
NoPending(doc) == [f \in (DOMAIN doc) \ {"npending"} |-> doc[f]]

PreLock(journal) ==
    SelectSeq(journal, LAMBDA j : getTimestamp(j.rid) <= tdoc.lockAt)

\* C2: while the contest is locked, the display view holds nothing of an entry
\* submitted after lockAt: apart from npending it equals the display of the
\* journal cut at lockAt, and no display entry carries a rid after lockAt.
C2_FreezeContainment ==
    isLocked(tdoc, now) =>
        LET all == StatNow(J).stats
            cut == StatNow(PreLock(J)).stats
        IN HasDisplay(all) =>
            \A p \in DOMAIN all.display :
                /\ NoPending(all.display[p]) =
                       (IF p \in DOMAIN cut.display
                        THEN NoPending(cut.display[p]) ELSE EmptyMap)
                /\ "rid" \in DOMAIN all.display[p] =>
                       getTimestamp(all.display[p].rid) <= tdoc.lockAt

\* a problem whose newest, better result is hidden behind the freeze
C2_Witness ==
    /\ isLocked(tdoc, now)
    /\ HasDisplay(tsdoc.stats)
    /\ \E p \in DOMAIN tsdoc.stats.display :
          /\ "rid" \in DOMAIN tsdoc.stats.display[p]
          /\ tsdoc.stats.display[p].npending >= 1
          /\ getTimestamp(tsdoc.stats.detail[p].rid) > tdoc.lockAt
          /\ tsdoc.stats.detail[p].score > tsdoc.stats.display[p].score
    /\ tsdoc.stats = StatNow(J).stats

OnlyPid(journal, pid) == SelectSeq(journal, LAMBDA j : j.pid = pid)

\* C3: detail[pid] is a function of the journal's entries for pid alone, in
\* order: the other problems' entries and the lock state do not matter.
C3_DetailFromOwnEntries ==
    \A journal \in Pushed \cup {J} :
        LET all == StatNow(journal).stats IN
        HasDetail(all) =>
            \A p \in DOMAIN all.detail :
                LET own == Stat([tdoc EXCEPT !.unlocked = TRUE], now,
                                OnlyPid(journal, p)).stats
                IN p \in DOMAIN own.detail /\ own.detail[p] = all.detail[p]

InPids(journal) == SelectSeq(journal, LAMBDA j : PidsIncludes(tdoc, j.pid))

\* C4: an entry whose pid is not in tdoc.pids is ignored: the result is that
\* of the journal without it, and detail and display have no key for it.
C4_ForeignPidIgnored ==
    \A journal \in Pushed \cup {J} :
        LET all == StatNow(journal).stats
            clean == StatNow(InPids(journal)).stats
        IN /\ all = clean
           /\ HasDetail(all) => \A p \in DOMAIN all.detail : PidsIncludes(tdoc, p)
           /\ HasDisplay(all) => \A p \in DOMAIN all.display : PidsIncludes(tdoc, p)

\* C5: under acm, once a problem's detail entry is accepted, a later entry for
\* that problem changes neither detail nor display nor the attempt counter.
C5_AcceptedIsFinal ==
    tdoc.rule = "acm" =>
        \A k \in 1..Len(J) :
            LET before == AcmFold("acm", tdoc, StatLockAt(tdoc, now), J, k - 1)
                after == AcmFold("acm", tdoc, StatLockAt(tdoc, now), J, k)
                p == J[k].pid
            IN (p \in DOMAIN before.detail
                    /\ HasStatus(before.detail[p], STATUS_ACCEPTED))
               => after = before

\* the rejected attempts before the entry rid, for the same problem
EarlierRejected(journal, pid, rid) ==
    Cardinality({k \in 1..Len(journal) :
                    /\ journal[k].pid = pid
                    /\ getTimestamp(journal[k].rid) < getTimestamp(rid)
                    /\ journal[k].status \notin
                         {STATUS_ACCEPTED, STATUS_COMPILE_ERROR, STATUS_FORMAT_ERROR}})

\* C6: under acm an accepted entry's time is the seconds elapsed since beginAt
\* plus 1200 per earlier rejected attempt (accepted, compile-error and
\* format-error entries not counted), and accept / time are the count and the
\* time sum of the problems whose display entry is accepted.
C6_AcmPenalty ==
    (tdoc.rule = "acm" /\ HasDetail(tsdoc.stats)) =>
        LET st == tsdoc.stats
            acc == {p \in DOMAIN st.display : HasStatus(st.display[p], STATUS_ACCEPTED)}
        IN /\ \A p \in DOMAIN st.detail :
                 st.detail[p].status = STATUS_ACCEPTED =>
                     st.detail[p].time =
                         (getTimestamp(st.detail[p].rid) - tdoc.beginAt)
                         + 1200 * EarlierRejected(J, p, st.detail[p].rid)
           /\ st.accept = Cardinality(acc)
           /\ st.time = SumOver([p \in acc |-> st.display[p].time], acc)

\* a solve on the third valid attempt: elapsed + 2400
C6_Witness ==
    /\ tdoc.rule = "acm"
    /\ HasDetail(tsdoc.stats)
    /\ \E p \in DOMAIN tsdoc.stats.detail :
          /\ tsdoc.stats.detail[p].status = STATUS_ACCEPTED
          /\ tsdoc.stats.detail[p].naccept = 2
          /\ tsdoc.stats.detail[p].time = tsdoc.stats.detail[p].real + 2400
          /\ tsdoc.stats.accept = 1
          /\ tsdoc.stats.time = tsdoc.stats.detail[p].time

DetailScore(stats) ==
    IF HasDetail(stats) THEN [p \in DOMAIN stats.detail |-> stats.detail[p].score]
    ELSE EmptyMap

\* C7: with the oi fold and submitAfterAccept false (rule ioi), whatever is
\* submitted the stored detail[pid].score never decreases, and neither does
\* the stored aggregate score between two instants at which the contest is
\* not locked.
C7_OiScoreNeverDrops ==
    [][tdoc.rule = "ioi" =>
         /\ \A p \in DOMAIN DetailScore(tsdoc.stats) :
               /\ p \in DOMAIN DetailScore(tsdoc'.stats)
               /\ DetailScore(tsdoc'.stats)[p] >= DetailScore(tsdoc.stats)[p]
         /\ (HasDetail(tsdoc.stats) /\ ~isLocked(tdoc, now) /\ ~isLocked(tdoc', now'))
               => tsdoc'.stats.score >= tsdoc.stats.score]_vars

\* a lower-scoring resubmission is the problem's last entry and the earlier,
\* higher-scoring entry is still the detail entry
C7_Witness ==
    /\ tdoc.rule = "ioi"
    /\ ~isLocked(tdoc, now)
    /\ Len(J) >= 2
    /\ \E k \in 1..(Len(J) - 1) :
          /\ J[k].pid = J[Len(J)].pid
          /\ PidsIncludes(tdoc, J[k].pid)
          /\ J[Len(J)].score < J[k].score
          /\ tsdoc.stats.detail[J[k].pid].rid = J[k].rid
          /\ tsdoc.stats.score >= J[k].score

\* the detail score of every problem, step by step through one strictioi fold
StrictMonotone(journal) ==
    \A k \in 1..Len(journal) :
        LET before == StrictFold(tdoc, journal, k - 1)
            after == StrictFold(tdoc, journal, k)
        IN \A p \in DOMAIN before.detail :
              /\ p \in DOMAIN after.detail
              /\ after.journal[after.detail[p]].score
                     >= before.journal[before.detail[p]].score
              /\ after.detail[p] # before.detail[p] =>
                     after.journal[after.detail[p]].score
                         > before.journal[before.detail[p]].score

\* C8: within one strictioi fold the score recorded in detail[pid] never
\* decreases as the entries are processed, and detail[pid] is replaced only by
\* an entry whose effective score is strictly higher.
C8_StrictIoiMonotone ==
    tdoc.rule = "strictioi" =>
        \A journal \in Pushed \cup {J} : StrictMonotone(journal)

\* a submission whose raw score is lower than the recorded one raises it
C8_Witness ==
    /\ tdoc.rule = "strictioi"
    /\ \E rid \in BeginAt..now, pid \in {1, 2}, v \in Verdicts :
          /\ J # <<>>
          /\ \A k \in 1..Len(J) : getTimestamp(J[k].rid) < getTimestamp(rid)
          /\ pid \in DOMAIN tsdoc.stats.detail
          /\ v.score < tsdoc.stats.detail[pid].score
          /\ LET journal == Append(J, NewEntry(rid, pid, v))
                 st == StrictFold(tdoc, journal, Len(journal))
             IN /\ st.detail[pid] = Len(journal)
                /\ st.journal[Len(journal)].score > tsdoc.stats.detail[pid].score

\* the penalized score of a raw score on the n-th valid attempt, n = 1, 2, ...:
\* round(score * max(0.70, 0.95^(n-1))), the floor 0.70 from n = 8 on
LedoExpected(score, n) ==
    LET m == IF n >= 8 THEN 8 ELSE n IN
    CASE score = 100 -> <<100, 95, 90, 86, 81, 77, 74, 70>>[m]
      [] score = 50 -> <<50, 48, 45, 43, 41, 39, 37, 35>>[m]
      [] score = 0 -> 0

\* the number of valid entries for the problem among the first k entries
ValidUpTo(journal, pid, k) ==
    Cardinality({i \in 1..k :
        /\ journal[i].pid = pid
        /\ journal[i].status \notin {STATUS_COMPILE_ERROR, STATUS_FORMAT_ERROR}})

LedoPenaltyAt(journal, k) ==
    IF journal[k].status \in {STATUS_COMPILE_ERROR, STATUS_FORMAT_ERROR} THEN 0
    ELSE LedoExpected(journal[k].score, ValidUpTo(journal, journal[k].pid, k))

\* the first entry of the problem with the highest penalized score
LedoBest(journal, pid) ==
    CHOOSE k \in 1..Len(journal) :
        /\ journal[k].pid = pid
        /\ \A i \in 1..Len(journal) : journal[i].pid = pid =>
              \/ LedoPenaltyAt(journal, i) < LedoPenaltyAt(journal, k)
              \/ (LedoPenaltyAt(journal, i) = LedoPenaltyAt(journal, k) /\ k <= i)

\* C9: under ledo the n-th valid submission to a problem scores
\* round(raw * max(0.70, 0.95^(n-1))), compile-error and format-error entries
\* score 0 and do not advance n, detail[pid] is the entry with the highest
\* penalized score, and score / originalScore are the sums of the penalized /
\* raw scores over detail.
C9_LedoDecay ==
    (tdoc.rule = "ledo" /\ HasDetail(tsdoc.stats)) =>
        LET st == tsdoc.stats
            seen == {J[k].pid : k \in 1..Len(J)} \cap {1, 2}
        IN /\ DOMAIN st.detail = seen
           /\ \A p \in seen :
                 LET k == LedoBest(J, p) IN
                 /\ st.detail[p].rid = J[k].rid
                 /\ st.detail[p].score = J[k].score
                 /\ st.detail[p].penaltyScore = LedoPenaltyAt(J, k)
           /\ st.score = SumOver([p \in seen |-> st.detail[p].penaltyScore], seen)
           /\ st.originalScore = SumOver([p \in seen |-> st.detail[p].score], seen)

\* the tenth valid attempt is the best one: 100 at the floor 0.70 beats the
\* first attempt's 50
C9_Witness ==
    /\ tdoc.rule = "ledo"
    /\ HasDetail(tsdoc.stats)
    /\ 1 \in DOMAIN tsdoc.stats.detail
    /\ tsdoc.stats.detail[1].ntry = 9
    /\ tsdoc.stats.detail[1].score = 100
    /\ tsdoc.stats.detail[1].penaltyScore = 70
    /\ tsdoc.stats.score = 70
    /\ tsdoc.stats.originalScore = 100

Ranks == [i \in 1..Len(rankedTsdocs) |-> rankedTsdocs[i][1]]

Tied(i) == cursor[i - 1].accept = cursor[i].accept /\ cursor[i - 1].time = cursor[i].time

\* the positions p .. p+k-1 are one whole tie group
TieGroup(p, k) ==
    /\ p = 1 \/ ~Tied(p)
    /\ \A i \in (p + 1)..(p + k - 1) : Tied(i)
    /\ p + k > Len(cursor) \/ ~Tied(p + k)

\* C10: ranked gives one (rank, element) pair per element in input order; the
\* first rank is 1, an element tied with its predecessor shares its rank, and
\* the first element after a tie group of size k starting at position p has
\* rank p + k.
C10_CompetitionRanks ==
    rankedTsdocs # <<>> =>
        /\ Len(rankedTsdocs) = Len(cursor)
        /\ \A i \in 1..Len(cursor) : rankedTsdocs[i][2] = cursor[i]
        /\ Ranks[1] = 1
        /\ \A i \in 2..Len(cursor) : Tied(i) => Ranks[i] = Ranks[i - 1]
        /\ \A p \in 1..Len(cursor), k \in 1..Len(cursor) :
              (p + k - 1 <= Len(cursor) /\ TieGroup(p, k)) =>
                  /\ \A i \in p..(p + k - 1) : Ranks[i] = p
                  /\ p + k <= Len(cursor) => Ranks[p + k] = p + k

\* two standings tied for rank 1, the next one at rank 3
C10_Witness ==
    /\ Len(rankedTsdocs) >= 3
    /\ Ranks[1] = 1
    /\ Ranks[2] = 1
    /\ Ranks[3] = 3

\* a contest as add and edit must leave it
WellFormed(doc) == doc.beginAt < doc.endAt /\ doc.rule \in RuleNames

\* the contest an edit asks for: the stored one overwritten by $set
Edited(args) ==
    [f \in DOMAIN tdocs[args.tid] \cup DOMAIN args.set |->
        IF f \in DOMAIN args.set THEN args.set[f] ELSE tdocs[args.tid][f]]

\* C11: every stored contest has beginAt < endAt and a rule of RULES; an add
\* with an unknown rule or beginAt >= endAt raises ValidationError and emits
\* no bus event, and no edit that asked for an unknown rule or for
\* beginAt >= endAt was carried out.
C11_StoredContestsWellFormed ==
    /\ \A tid \in DOMAIN tdocs : WellFormed(tdocs[tid])
    /\ (call.op = "add" /\ ~WellFormed(call.args)) =>
           (call.thrown = "ValidationError" /\ call.events = <<>>)
    /\ (call.op = "edit" /\ call.thrown = "none") => WellFormed(Edited(call.args))

\* the permission that lets a user who is not the owner see a hidden board
HiddenPerm(t) ==
    IF t.rule = "homework" THEN "PERM_VIEW_HOMEWORK_HIDDEN_SCOREBOARD"
    ELSE "PERM_VIEW_CONTEST_HIDDEN_SCOREBOARD"

\* C12: each gate answers true exactly when the rule's predicate holds at the
\* time of the call, or allowPermOverride is set and the user owns the contest
\* or holds the hidden-scoreboard permission of the contest's kind; without
\* allowPermOverride the answer is the rule's predicate alone.
C12_GateIsPredicateOrOverride ==
    call.op \in Gates =>
        LET shows == RuleShows(call.op, call.tdoc, call.now)
            capable == call.user.own \/ HiddenPerm(call.tdoc) \in call.user.perms
        IN /\ call.result = (shows \/ (call.allowPermOverride /\ capable))
           /\ ~call.allowPermOverride => call.result = shows

\* a homework's records before its end, shown to a user who only holds the
\* homework permission
C12_Witness ==
    /\ call.op = "canShowRecord"
    /\ call.tdoc.rule = "homework"
    /\ ~RuleShows(call.op, call.tdoc, call.now)
    /\ ~call.user.own
    /\ call.user.perms = {"PERM_VIEW_HOMEWORK_HIDDEN_SCOREBOARD"}
    /\ call.allowPermOverride
    /\ call.result

\* the number of cells a problem takes in the grid of the recorded call
CellsPerProblem ==
    IF ~call.config.isExport THEN 1
    ELSE CASE call.tdoc.rule = "acm" -> 2
           [] call.tdoc.rule = "homework" -> 3
           [] OTHER -> 1

\* the per-problem view the rule's row reads
RowView ==
    IF call.tdoc.rule \in {"acm", "oi", "ioi"} /\ call.config.lockAt # None
    THEN FieldOr(call.tsdoc, "display", EmptyMap)
    ELSE FieldOr(call.tsdoc, "detail", EmptyMap)

\* the rid a result cell links to
CellRid(cell) == IF cell.type = "records" THEN cell.raw[1].raw ELSE cell.raw

\* C13: in every grid built by a rule's scoreboard, each row has as many cells
\* as the header; the cells after the leading ones come in groups of equal
\* size, one group per problem in pids order: the header's group names the
\* k-th problem of pids and the row's group shows the participant's result
\* for that problem.
C13_RowMatchesHeader ==
    call.op = "scoreboard" =>
        LET header == call.rows[1]
            pids == call.tdoc.pids
            w == CellsPerProblem
            lead == Len(header) - w * Len(pids)
        IN /\ lead >= 3
           /\ \A r \in 2..Len(call.rows) : Len(call.rows[r]) = Len(header)
           /\ \A k \in 1..Len(pids) :
                 LET at == lead + w * (k - 1) + 1
                     doc == Get(RowView, pids[k], EmptyMap)
                 IN /\ IF call.config.isExport
                       THEN header[at].value = <<"#", k, "title", pids[k]>>
                       ELSE header[at].type = "problem" /\ header[at].raw = pids[k]
                    /\ \A r \in 2..Len(call.rows) :
                          \A c \in at..(at + w - 1) :
                              call.rows[r][c].type \in {"record", "records"} =>
                                  CellRid(call.rows[r][c]) = FieldOr(doc, "rid", None)
                    /\ (call.config.isExport /\ call.tdoc.rule = "acm") =>
                          \A r \in 2..Len(call.rows) :
                              call.rows[r][at + 1].value =
                                  (IF "rid" \in DOMAIN doc
                                   THEN <<(doc.penalty + 59) \div 60>> ELSE <<>>)
                    /\ (call.config.isExport /\ call.tdoc.rule = "homework") =>
                          \A r \in 2..Len(call.rows) :
                              call.rows[r][at].value =
                                  <<FieldOr(doc, "penaltyScore", None)>>

\* a homework export for two problems, both attempted: 5 leading cells and 3
\* cells per problem in the header and in the row
C13_Witness ==
    /\ call.op = "scoreboard"
    /\ call.tdoc.rule = "homework"
    /\ call.config.isExport
    /\ Len(call.tdoc.pids) = 2
    /\ DOMAIN FieldOr(call.tsdoc, "detail", EmptyMap) = {1, 2}
    /\ Len(call.rows) = 2
    /\ Len(call.rows[1]) = 11
    /\ Len(call.rows[2]) = 11

\* the definition whose code runs for each function of each rule
ExpectedImpl ==
    [acm |-> [scoreboard |-> "acm", scoreboardHeader |-> "acm",
              scoreboardRow |-> "acm", stat |-> "acm"],
     oi |-> [scoreboard |-> "oi", scoreboardHeader |-> "oi",
             scoreboardRow |-> "oi", stat |-> "oi"],
     ioi |-> [scoreboard |-> "oi", scoreboardHeader |-> "oi",
              scoreboardRow |-> "oi", stat |-> "oi"],
     strictioi |-> [scoreboard |-> "oi", scoreboardHeader |-> "oi",
                    scoreboardRow |-> "strictioi", stat |-> "strictioi"],
     ledo |-> [scoreboard |-> "oi", scoreboardHeader |-> "oi",
               scoreboardRow |-> "ledo", stat |-> "ledo"],
     homework |-> [scoreboard |-> "homework", scoreboardHeader |-> "homework",
                   scoreboardRow |-> "homework", stat |-> "homework"]]

\* C16: each of scoreboard, scoreboardRow, scoreboardHeader and stat of a rule
\* is the rule's own definition if it supplied one and else the original of
\* its base, bound to the rule itself: every scoreboard built ran the
\* rule's own header and row code (strictioi and ledo their own row under
\* oi's scoreboard), and the oi stat run for ioi reads submitAfterAccept
\* false.
C16_VirtualDispatch ==
    /\ \A rule \in RuleNames, key \in Funcs :
          /\ RULES[rule][key].impl = ExpectedImpl[rule][key]
          /\ RULES[rule][key].this = rule
    /\ RULES.ioi.stat.impl = "oi" /\ ~submitAfterAccept(RULES.ioi.stat.this)
    /\ submitAfterAccept(RULES.oi.stat.this)
    /\ call.op = "scoreboard" =>
          /\ call.ran.scoreboard = ExpectedImpl[call.tdoc.rule].scoreboard
          /\ call.ran.scoreboardHeader = ExpectedImpl[call.tdoc.rule].scoreboardHeader
          /\ call.ran.scoreboardRow = ExpectedImpl[call.tdoc.rule].scoreboardRow
    /\ (tdoc.rule = "ioi" /\ HasDetail(tsdoc.stats)) =>
          \A k \in 1..Len(J) :
              PidsIncludes(tdoc, J[k].pid) =>
                  tsdoc.stats.detail[J[k].pid].score >= J[k].score

\* strictioi's grid: oi's scoreboard and header with strictioi's own row,
\* showing the subtasks of the result
C16_Witness ==
    /\ call.op = "scoreboard"
    /\ call.tdoc.rule = "strictioi"
    /\ call.ran = [scoreboard |-> "oi", scoreboardHeader |-> "oi",
                   scoreboardRow |-> "strictioi"]
    /\ Len(call.tdoc.pids) >= 1
    /\ "hover" \in DOMAIN call.rows[2][Len(call.rows[2])].value

NumericAggregates == {"score", "time", "accept", "originalScore", "penaltyScore"}

\* C14: for every rule, stat of the empty journal returns 0 for every numeric
\* aggregate the rule produces, and a detail and a display that are both
\* present and empty.
C14_EmptyJournalZero ==
    LET stats == StatNow(<<>>).stats IN
    /\ \A f \in NumericAggregates \cap DOMAIN stats : stats[f] = 0
    /\ HasDetail(stats) /\ stats.detail = EmptyMap
    /\ HasDisplay(stats) /\ stats.display = EmptyMap

\* C15: stat raises no error for entries without subtasks or a contest without
\* penaltySince / penaltyRules: no updateStatus or recalcStatus ends in an
\* exception, and once a submission is recorded the stored aggregates have a
\* detail whose entries all carry a status and a score.
C15_StatIsTotal ==
    /\ call.op \in {"updateStatus", "recalcStatus"} => call.thrown = "none"
    /\ J # <<>> =>
          /\ HasDetail(tsdoc.stats)
          /\ \A p \in DOMAIN tsdoc.stats.detail :
                /\ tsdoc.stats.detail[p].status # Undef
                /\ tsdoc.stats.detail[p].score >= 0

\* C17: stat leaves the journal entries as they were: whatever is written
\* back, no stored entry carries an npending, penaltyScore or time field, and
\* every entry that was stored before is stored unchanged.
C17_JournalEntriesImmutable ==
    [][/\ \A m \in 1..Len(J') :
             J'[m].npending = 0 /\ J'[m].penaltyScore = Undef /\ J'[m].time = Undef
       /\ \A k \in 1..Len(J) : \E m \in 1..Len(J') : J'[m] = J[k]]_vars

\* the contest is not locked, in the claim's words
NotLocked(t, at) == t.lockAt = None \/ at <= t.lockAt \/ t.unlocked

\* the contest as it is, without a lockAt, and manually unlocked
LockVariants == {tdoc, [tdoc EXCEPT !.lockAt = None], [tdoc EXCEPT !.unlocked = TRUE]}

\* C18: under acm, oi and ioi, whenever the contest is not locked (no lockAt,
\* lockAt not passed, or unlocked set) stat returns a display equal to detail
\* for every problem, with no pending count on any display entry; so do the
\* aggregates stored by a run of stat after the unlock.
C18_DisplayIsDetailUnlessLocked ==
    /\ \A t \in LockVariants :
          NotLocked(t, now) =>
              LET stats == Stat(t, now, J).stats IN
              /\ stats.display = stats.detail
              /\ \A p \in DOMAIN stats.display : stats.display[p].npending = 0
    /\ (NotLocked(tdoc, now) /\ HasDisplay(tsdoc.stats)
          /\ tsdoc.stats = StatNow(J).stats) =>
             tsdoc.stats.display = tsdoc.stats.detail

\* after the unlock and a recalculation the display shows a result submitted
\* after lockAt
C18_Witness ==
    /\ tdoc.unlocked
    /\ now > tdoc.lockAt
    /\ HasDisplay(tsdoc.stats)
    /\ tsdoc.stats = StatNow(J).stats
    /\ \E p \in DOMAIN tsdoc.stats.display :
          /\ getTimestamp(tsdoc.stats.display[p].rid) > tdoc.lockAt
          /\ tsdoc.stats.display[p] = tsdoc.stats.detail[p]
          /\ \E k \in 1..Len(J) :
                J[k].pid = p /\ getTimestamp(J[k].rid) <= tdoc.lockAt

\* the participant's duration budget (if there is one) is used up
Exhausted(t, ts, at) ==
    /\ "absent" \notin DOMAIN ts
    /\ "duration" \in DOMAIN t /\ t.duration > 0
    /\ "startAt" \in DOMAIN ts
    /\ at - ts.startAt >= t.duration * 3600

\* C19: isOngoing and isDone are never both true, from beginAt on exactly one
\* of them is true, isOngoing holds iff beginAt <= now < endAt and the budget
\* is not exhausted, and isDone holds iff endAt <= now or the budget is
\* exhausted; every recorded answer is the one for the instant of the call.
C19_OngoingXorDone ==
    /\ \A ts \in {Absent, tsdoc} :
          LET ongoing == isOngoing(tdoc, ts, now)
              done == isDone(tdoc, ts, now)
          IN /\ ~(ongoing /\ done)
             /\ now >= tdoc.beginAt => (ongoing # done)
             /\ ongoing = (tdoc.beginAt <= now /\ now < tdoc.endAt
                             /\ ~Exhausted(tdoc, ts, now))
             /\ done = (tdoc.endAt <= now \/ Exhausted(tdoc, ts, now))
    /\ call.op = "isOngoing" =>
          call.result = (call.tdoc.beginAt <= call.now /\ call.now < call.tdoc.endAt
                           /\ ~Exhausted(call.tdoc, call.tsdoc, call.now))
    /\ call.op = "isDone" =>
          call.result = (call.tdoc.endAt <= call.now
                           \/ Exhausted(call.tdoc, call.tsdoc, call.now))

\* isDone answers true before endAt: the participant's hour is used up
C19_Witness ==
    /\ call.op = "isDone"
    /\ call.result
    /\ call.now < call.tdoc.endAt
    /\ call.now >= call.tdoc.beginAt
    /\ ~isOngoing(call.tdoc, call.tsdoc, call.now)

\* the entries for a problem submitted after lockAt
PostLock(journal, p) ==
    {k \in 1..Len(journal) :
        journal[k].pid = p /\ getTimestamp(journal[k].rid) > tdoc.lockAt}

\* under acm, an entry after an accepted one for the same problem is ignored
IgnoredAsAccepted(journal, k) ==
    /\ tdoc.rule = "acm"
    /\ \E m \in 1..(k - 1) :
          journal[m].pid = journal[k].pid /\ journal[m].status = STATUS_ACCEPTED

PendingOf(stats, p) ==
    IF p \in DOMAIN stats.display /\ "npending" \in DOMAIN stats.display[p]
    THEN stats.display[p].npending ELSE 0

\* C20: while the contest is locked, under acm, oi and ioi and for every
\* problem of pids, display[pid].npending is the number of entries for the
\* problem submitted after lockAt (under acm without those ignored because
\* the problem was already accepted), whatever their scores; those entries
\* fold into detail as they do when nothing is locked, and leave the other
\* fields of display as the entries up to lockAt set them.
C20_PendingCountsPostLockEntries ==
    isLocked(tdoc, now) =>
        LET stats == StatNow(J).stats
            open == Stat([tdoc EXCEPT !.unlocked = TRUE], now, J).stats
            cut == StatNow(PreLock(J)).stats
        IN \A i \in 1..Len(tdoc.pids) :
              LET p == tdoc.pids[i] IN
              /\ PendingOf(stats, p) =
                     Cardinality({k \in PostLock(J, p) : ~IgnoredAsAccepted(J, k)})
              /\ p \in DOMAIN stats.detail =>
                     NoPending(stats.detail[p]) = NoPending(open.detail[p])
              /\ p \in DOMAIN stats.display =>
                     NoPending(stats.display[p]) =
                         (IF p \in DOMAIN cut.display
                          THEN NoPending(cut.display[p]) ELSE EmptyMap)

\* the aggregate fields standings are sorted and ranked by
SortFields(stats) ==
    IF tdoc.rule = "acm"
    THEN [accept |-> stats.accept, time |-> stats.time]
    ELSE [score |-> stats.score]

\* C21: under acm, oi, ioi, strictioi and ledo, while the contest is locked
\* the stored aggregate fields standings are sorted by (accept and time for
\* acm, score for the others) equal those computed from the entries
\* submitted at or before lockAt only.
C21_SortFieldsFrozen ==
    (/\ tdoc.rule \in {"acm", "oi", "ioi", "strictioi", "ledo"}
     /\ isLocked(tdoc, now)
     /\ HasDetail(tsdoc.stats)) =>
        SortFields(tsdoc.stats) = SortFields(StatNow(PreLock(J)).stats)

\* C22: a row built by scoreboardRow while the contest is locked never links
\* a problem cell to an entry submitted after lockAt, for every rule and
\* every render configuration (also one without config.lockAt).
C22_LockedRowHidesPostLock ==
    (call.op = "scoreboard" /\ isLocked(call.tdoc, call.now)) =>
        \A r \in 2..Len(call.rows) :
            \A c \in 1..Len(call.rows[r]) :
                call.rows[r][c].type \in {"record", "records"} =>
                    \/ CellRid(call.rows[r][c]) = None
                    \/ getTimestamp(CellRid(call.rows[r][c])) <= call.tdoc.lockAt

\* the requester has no way past a hidden scoreboard
NoOverride(user, t) ==
    /\ ~user.own
    /\ HiddenPerm(t) \notin user.perms

\* C23: getScoreboard on a contest whose rule's showScoreboard is false now,
\* for a user who neither owns the contest nor holds the hidden-scoreboard
\* permission, raises ContestScoreboardHiddenError having opened no cursor,
\* run no scoreboard function and emitted no bus event; in every other case
\* it returns one header row plus one row per standing, after reading the
\* cursor, running the rule's scoreboard and emitting the event, in that
\* order.
C23_HiddenScoreboardRefused ==
    call.op = "getScoreboard" =>
        IF /\ ~RuleShows("canShowScoreboard", call.tdoc, call.now)
           /\ NoOverride(call.user, call.tdoc)
        THEN /\ call.thrown = "ContestScoreboardHiddenError"
             /\ call.effects = <<>>
             /\ "rows" \notin DOMAIN call
             /\ "pdict" \notin DOMAIN call
        ELSE /\ call.thrown = "none"
             /\ call.effects = <<"getMultiStatus", "problem.getList", "scoreboard",
                                 "contest/scoreboard">>
             /\ Len(call.rows) = 1 + Len(call.cursor)
             /\ \A r \in 1..Len(call.rows) : call.rows[r][1].type = "rank"

\* an oi contest in progress with two standings, requested by a user with
\* only the homework permission: refused
C23_Witness ==
    /\ call.op = "getScoreboard"
    /\ call.tdoc.rule = "oi"
    /\ call.now > call.tdoc.beginAt
    /\ Len(call.cursor) = 2
    /\ call.user.perms = {"PERM_VIEW_HOMEWORK_HIDDEN_SCOREBOARD"}
    /\ call.thrown = "ContestScoreboardHiddenError"

\* unlockScoreboard has completed on a contest that has lockAt
UnlockCompleted == call.op = "unlockScoreboard" /\ call.tdoc.lockAt # None

\* C24: over unlockScoreboard, updateStatus, recalcStatus and attend with
\* time advancing, once unlockScoreboard has completed on a contest that has
\* lockAt, isLocked is false at every later instant; unlockScoreboard on a
\* contest without lockAt or already unlocked hands nothing to edit and
\* leaves the contest document as it was.
C24_UnlockIsFinal ==
    /\ [](UnlockCompleted => [](~isLocked(tdoc, now)))
    /\ []((call.op = "unlockScoreboard"
             /\ (call.tdoc.lockAt = None \/ call.tdoc.unlocked)) =>
                call.sets = <<>>)
    /\ [][(call'.op = "unlockScoreboard" /\ call' # call
             /\ (tdoc.lockAt = None \/ tdoc.unlocked)) => tdoc' = tdoc]_vars

\* the contest was unlocked before lockAt, lockAt has passed since, a
\* submission made after it is stored, and the contest is not locked
C24_Witness ==
    /\ tdoc.lockAt # None
    /\ tdoc.unlocked
    /\ now > tdoc.lockAt
    /\ tdoc.attend = 1
    /\ \E k \in 1..Len(J) : getTimestamp(J[k].rid) > tdoc.lockAt
    /\ HasDisplay(tsdoc.stats)
    /\ ~isLocked(tdoc, now)

\* the ranks in the first column of the grid acm.scoreboard builds from the
\* standings cursor
GridRanks ==
    LET docs == [i \in 1..Len(cursor) |-> Spread([journal |-> <<>>], cursor[i])]
        f == RULES[tdoc.rule].scoreboard
        r == scoreboard(f.impl, f.this, [isExport |-> FALSE, lockAt |-> None],
                        tdoc, now, docs, EmptyMap)
    IN [i \in 1..Len(cursor) |-> r.rows[i + 1][1].value[1]]

\* standings acm.stat produces: no accepted problem, no time
Producible == \A i \in 1..Len(cursor) : cursor[i].accept = 0 => cursor[i].time = 0

\* C25: the ranks shown in the grid built by scoreboard equal the ranks the
\* rule's ranked returned for the same sorted standings, and two standings
\* share a rank in the grid only if they agree on every statusSort field
\* (accept and time for acm).
C25_GridRanksAreRanked ==
    (rankedTsdocs # <<>> /\ Producible) =>
        /\ \A i \in 1..Len(cursor) : GridRanks[i] = rankedTsdocs[i][1]
        /\ \A i \in 1..Len(cursor), k \in 1..Len(cursor) :
              GridRanks[i] = GridRanks[k] =>
                  cursor[i].accept = cursor[k].accept /\ cursor[i].time = cursor[k].time

\* no call is in flight
AllDone == \A c \in CallIds : calls[c].pc \in {"idle", "done"}

\* the updateStatus calls that have finished
Finished == {c \in CallIds : calls[c].pc = "done" /\ calls[c].op = "updateStatus"}

\* C26: for any interleaving of concurrent updateStatus calls and
\* recalcStatus runs for one participant, with the contest unchanged, once
\* every call has finished the stored journal holds every pushed entry and
\* the stored aggregates equal stat applied to the stored journal.
C26_RaceConverges ==
    AllDone =>
        /\ Len(J) = Cardinality(Finished)
        /\ \A c \in Finished : \E k \in 1..Len(J) : J[k].rid = calls[c].entry.rid
        /\ J # <<>> => tsdoc.stats = StatNow(getStatusJournal(J)).stats

\* a recalcStatus that began after the unlock has completed
RecalcAfterUnlock ==
    \E c \in CallIds :
        /\ calls[c].pc = "done"
        /\ calls[c].op = "recalcStatus"
        /\ calls[c].began.unlocked

\* C27: for a locked acm / oi / ioi contest, once unlockScoreboard, a
\* recalcStatus begun after it and every updateStatus call in flight during
\* them have completed, the stored display equals the stored detail and the
\* stored aggregates equal stat of the stored journal under the unlocked
\* contest, in every interleaving.
C27_ThawConverges ==
    (tdoc.unlocked /\ RecalcAfterUnlock /\ AllDone /\ J # <<>>) =>
        /\ tsdoc.stats.display = tsdoc.stats.detail
        /\ tsdoc.stats = StatNow(getStatusJournal(J)).stats

\* the order the labels come in
LabelOrder(label) ==
    CASE label = "New" -> 1
      [] label = "Ready" -> 2
      [] label = "Live..." -> 3
      [] label = "Done" -> 4

\* the label the claim gives a contest, its participant record and an instant
ExpectedLabel(t, ts, at) ==
    IF at < t.beginAt - 86400 THEN "New"
    ELSE IF at < t.beginAt THEN "Ready"
    ELSE IF isOngoing(t, ts, at) THEN "Live..."
    ELSE "Done"

\* C28: for a fixed contest and participant record, statusText is "New" more
\* than one day before beginAt, "Ready" from one day before beginAt up to
\* (excluding) beginAt, "Live..." exactly while isOngoing holds and "Done"
\* afterwards; every recorded answer is the one for the instant of the call;
\* and as time advances the label never returns to an earlier one.
C28_StatusTextForward ==
    /\ [](\A ts \in {Absent, tsdoc} :
             /\ statusText(tdoc, ts, now) = ExpectedLabel(tdoc, ts, now)
             /\ (statusText(tdoc, ts, now) = "Live...") = isOngoing(tdoc, ts, now))
    /\ [](call.op = "statusText" =>
             call.result = ExpectedLabel(call.tdoc, call.tsdoc, call.now))
    /\ [][\A ts \in {Absent, tsdoc} :
             LabelOrder(statusText(tdoc', ts, now')) >=
                 LabelOrder(statusText(tdoc, ts, now))]_vars

\* exactly one day before beginAt the answer is "Ready"
C28_Witness ==
    /\ call.op = "statusText"
    /\ call.now = call.tdoc.beginAt - 86400
    /\ call.result = "Ready"
    /\ now >= call.tdoc.beginAt
    /\ statusText(tdoc, tsdoc, now) = "Done"
    /\ now < tdoc.endAt

\* the entries of the recorded standing for a problem that were not
\* submitted after config.lockAt (all of them when it is not set)
Countable(pid) ==
    {k \in 1..Len(call.tsdoc.journal) :
        /\ call.tsdoc.journal[k].pid = pid
        /\ \/ call.config.lockAt = None
           \/ getTimestamp(call.tsdoc.journal[k].rid) <= call.config.lockAt}

\* C29: after a complete scoreboard build, for every rule and each problem
\* in pids, nSubmit is the number of journal entries for the problem over the
\* ranked standings, counting only those not submitted after config.lockAt
\* when it is set, nAccept is the number of those that are accepted, and
\* nAccept <= nSubmit.
C29_CountersMatchJournal ==
    call.op = "scoreboard" =>
        \A i \in 1..Len(call.tdoc.pids) :
            LET pid == call.tdoc.pids[i] IN
            /\ call.pdict[pid].nSubmit = Cardinality(Countable(pid))
            /\ call.pdict[pid].nAccept =
                  Cardinality({k \in Countable(pid) :
                                  call.tsdoc.journal[k].status = STATUS_ACCEPTED})
            /\ call.pdict[pid].nAccept <= call.pdict[pid].nSubmit

\* the recorded gate call could not pass by ownership or permission
WithoutOverride ==
    \/ ~call.allowPermOverride
    \/ NoOverride(call.user, call.tdoc)

\* C30: under acm, oi and ioi, canShowRecord without an owner / permission
\* override answers false at every instant at which the contest is locked,
\* and answers true only after endAt and when the contest is not locked.
C30_NoRecordsWhileLocked ==
    (/\ call.op = "canShowRecord"
     /\ call.tdoc.rule \in {"acm", "oi", "ioi"}
     /\ WithoutOverride) =>
        /\ isLocked(call.tdoc, call.now) => ~call.result
        /\ call.result => (call.now > call.tdoc.endAt /\ ~isLocked(call.tdoc, call.now))
        /\ call.result = RuleShows("canShowRecord", call.tdoc, call.now)

====
